---- MODULE Spec2Model ----
(***************************************************************************)
(* CoderBot: the generate / test / debug loop of main.py (solve_task),     *)
(* with the error normalizer (normalize_error) and the output evaluator    *)
(* (evaluate_output) it calls, and the executor (run_code).                *)
(*                                                                         *)
(* Spec and FairSpec are a session of solve_task, ExecSpec is one call of  *)
(* run_code with the verdict of its caller, EvalSpec is one call of        *)
(* evaluate_output, NormSpec is normalize_error applied to a text and then *)
(* to its own result.                                                      *)
(*                                                                         *)
(* Texts that the program takes apart (stdout, stderr, expected outputs)   *)
(* are sequences of one-character strings.  Source texts and test inputs   *)
(* are only passed around and compared, so they stay TLA+ strings.         *)
(***************************************************************************)
EXTENDS Integers, Sequences, FiniteSets, TLC

(***************************************************************************)
(* Bounds of the model.                                                    *)
(***************************************************************************)
\* largest configured MAX_ATTEMPTS explored
MaxAttempts == 3
\* largest configured MAX_DUPLICATE_ERRORS explored
MaxDup == 2
\* longest test-case sequence explored
MaxTests == 2

\* python's None
None == "None"

(***************************************************************************)
(* Characters and strings.                                                 *)
(***************************************************************************)
Digits == {"0", "1", "2", "3", "4", "5", "6", "7", "8", "9"}

Letters ==
  {"a", "b", "c", "d", "e", "f", "g", "h", "i", "j", "k", "l", "m", "n", "o",
   "p", "q", "r", "s", "t", "u", "v", "w", "x", "y", "z",
   "A", "B", "C", "D", "E", "F", "G", "H", "I", "J", "K", "L", "M", "N", "O",
   "P", "Q", "R", "S", "T", "U", "V", "W", "X", "Y", "Z"}

\* \d of the re module
IsDigit(c) == c \in Digits

\* \w of the re module
IsWord(c) == c \in Letters \cup Digits \cup {"_"}

\* the characters str.strip() removes
IsSpace(c) == c \in {" ", "\t", "\n", "\r", "\f"}

\* s[i..] starts with p
HasPrefix(s, i, p) ==
  /\ i + Len(p) - 1 <= Len(s)
  /\ \A k \in 1..Len(p) : s[i + k - 1] = p[k]

\* s[i..j], empty when j < i
Slice(s, i, j) == IF j < i THEN <<>> ELSE SubSeq(s, i, j)

RECURSIVE SkipSpaceLeft(_, _)
SkipSpaceLeft(s, i) ==
  IF i <= Len(s) /\ IsSpace(s[i]) THEN SkipSpaceLeft(s, i + 1) ELSE i

RECURSIVE SkipSpaceRight(_, _)
SkipSpaceRight(s, j) ==
  IF j >= 1 /\ IsSpace(s[j]) THEN SkipSpaceRight(s, j - 1) ELSE j

\* str.strip()
strip(s) == Slice(s, SkipSpaceLeft(s, 1), SkipSpaceRight(s, Len(s)))

(***************************************************************************)
(* normalize_error (main.py).                                              *)
(***************************************************************************)
\* first index >= j of s that holds no digit
RECURSIVE DigitsEnd(_, _)
DigitsEnd(s, j) ==
  IF j <= Len(s) /\ IsDigit(s[j]) THEN DigitsEnd(s, j + 1) ELSE j

\* a slip: line 118 left out, the line numbers stay
SubLineLeftOut(s, i) == Slice(s, i, Len(s))

\* a slip: r'line \d' replaced by 'line ', one digit dropped at a time
RECURSIVE SubLineOneDigit(_, _)
SubLineOneDigit(s, i) ==
  IF i > Len(s) THEN <<>>
  ELSE IF /\ HasPrefix(s, i, <<"l", "i", "n", "e", " ">>)
          /\ i + 5 <= Len(s)
          /\ IsDigit(s[i + 5])
       THEN <<"l", "i", "n", "e", " ">> \o SubLineOneDigit(s, i + 6)
       ELSE <<s[i]>> \o SubLineOneDigit(s, i + 1)

\* re.sub(r'line \d+', 'line X', s), from index i on
RECURSIVE SubLine(_, _)
SubLine(s, i) ==
  IF i > Len(s) THEN <<>>
  ELSE IF /\ HasPrefix(s, i, <<"l", "i", "n", "e", " ">>)
          /\ i + 5 <= Len(s)
          /\ IsDigit(s[i + 5])
       THEN <<"l", "i", "n", "e", " ", "X">> \o SubLine(s, DigitsEnd(s, i + 5))
       ELSE <<s[i]>> \o SubLine(s, i + 1)

\* index of the first '"' of s at or after j, Len(s) + 1 when there is none
RECURSIVE QuoteAt(_, _)
QuoteAt(s, j) ==
  IF j <= Len(s) /\ s[j] # "\"" THEN QuoteAt(s, j + 1) ELSE j

\* re.sub(r'File "[^"]*"', 'File "X"', s), from index i on
RECURSIVE SubFile(_, _)
SubFile(s, i) ==
  IF i > Len(s) THEN <<>>
  ELSE IF /\ HasPrefix(s, i, <<"F", "i", "l", "e", " ", "\"">>)
          /\ QuoteAt(s, i + 6) <= Len(s)
       THEN <<"F", "i", "l", "e", " ", "\"", "X", "\"">>
              \o SubFile(s, QuoteAt(s, i + 6) + 1)
       ELSE <<s[i]>> \o SubFile(s, i + 1)

\* first index >= j of s that holds no word character
RECURSIVE WordEnd(_, _)
WordEnd(s, j) ==
  IF j <= Len(s) /\ IsWord(s[j]) THEN WordEnd(s, j + 1) ELSE j

\* re.sub(r'tmp\w+\.py', 'tmpX.py', s), from index i on.  '.' is no word
\* character, so the greedy \w+ never has to give characters back.
RECURSIVE SubTmp(_, _)
SubTmp(s, i) ==
  IF i > Len(s) THEN <<>>
  ELSE IF /\ HasPrefix(s, i, <<"t", "m", "p">>)
          /\ WordEnd(s, i + 3) > i + 3
          /\ HasPrefix(s, WordEnd(s, i + 3), <<".", "p", "y">>)
       THEN <<"t", "m", "p", "X", ".", "p", "y">>
              \o SubTmp(s, WordEnd(s, i + 3) + 3)
       ELSE <<s[i]>> \o SubTmp(s, i + 1)

\* index of the first newline of s at or after j, Len(s) + 1 when none
RECURSIVE NewlineAt(_, _)
NewlineAt(s, j) ==
  IF j <= Len(s) /\ s[j] # "\n" THEN NewlineAt(s, j + 1) ELSE j

\* s.split('\n'), from index i on: a sequence of lines
RECURSIVE SplitLines(_, _)
SplitLines(s, i) ==
  IF NewlineAt(s, i) > Len(s) THEN <<Slice(s, i, Len(s))>>
  ELSE <<Slice(s, i, NewlineAt(s, i) - 1)>> \o SplitLines(s, NewlineAt(s, i) + 1)

\* the loop of lines 125-127: the lines kept, each stripped
RECURSIVE CoreError(_)
CoreError(lines) ==
  IF lines = <<>> THEN <<>>
  ELSE IF /\ strip(Head(lines)) # <<>>
          /\ ~HasPrefix(Head(lines), 1, <<" ", " ", "F", "i", "l", "e", " ">>)
       THEN <<strip(Head(lines))>> \o CoreError(Tail(lines))
       ELSE CoreError(Tail(lines))

\* '\n'.join(lines)
RECURSIVE JoinLines(_)
JoinLines(lines) ==
  IF lines = <<>> THEN <<>>
  ELSE IF Len(lines) = 1 THEN Head(lines)
  ELSE Head(lines) \o <<"\n">> \o JoinLines(Tail(lines))

normalize_error(error_message) ==
  IF error_message = <<>> THEN <<>>
  ELSE JoinLines(CoreError(SplitLines(
         SubTmp(SubFile(SubLine(error_message, 1), 1), 1), 1)))

(***************************************************************************)
(* evaluate_output (evaluator.py).  float() is modelled on plain decimal   *)
(* literals, [+-] digits [. digits], and on the spellings of infinity and  *)
(* not-a-number; the model's texts hold no exponent and no underscore, at  *)
(* most seven fractional digits and at most nine digits in all.            *)
(***************************************************************************)
DigitVal(c) ==
  CASE c = "0" -> 0 [] c = "1" -> 1 [] c = "2" -> 2 [] c = "3" -> 3
    [] c = "4" -> 4 [] c = "5" -> 5 [] c = "6" -> 6 [] c = "7" -> 7
    [] c = "8" -> 8 [] c = "9" -> 9

\* s without a leading sign
Unsigned(s) == IF s # <<>> /\ Head(s) \in {"+", "-"} THEN Tail(s) ELSE s

\* s, already stripped, is a plain decimal literal
IsDecimal(s) ==
  LET b == Unsigned(s)
      p == DigitsEnd(b, 1)
  IN  IF p > Len(b) THEN p > 1
      ELSE /\ b[p] = "."
           /\ DigitsEnd(b, p + 1) > Len(b)
           /\ (p > 1 \/ Len(b) > p)

\* value of the digit string d as a natural number
RECURSIVE NatVal(_)
NatVal(d) ==
  IF d = <<>> THEN 0 ELSE NatVal(SubSeq(d, 1, Len(d) - 1)) * 10 + DigitVal(d[Len(d)])

\* the first seven digits of d, padded with zeros on the right
RECURSIVE Pad7(_)
Pad7(d) == IF Len(d) >= 7 THEN SubSeq(d, 1, 7) ELSE Pad7(d \o <<"0">>)

\* the number the plain decimal literal s denotes, in units of 1e-7
DecimalVal(s) ==
  LET b == Unsigned(s)
      p == DigitsEnd(b, 1)
      mag == NatVal(Slice(b, 1, p - 1)) * 10000000
               + NatVal(Pad7(Slice(b, p + 1, Len(b))))
  IN  IF Head(s) = "-" THEN 0 - mag ELSE mag

Abs(n) == IF n < 0 THEN 0 - n ELSE n

(***************************************************************************)
(* float() and the arithmetic of line 11 on IEEE 754 binary64.  A finite   *)
(* non-zero value is a sign, the exponent e of its leading bit and its 53  *)
(* significand bits m, leading bit first: the value is                     *)
(* m[1] * 2^e + m[2] * 2^(e-1) + ... + m[53] * 2^(e-52).  The model's      *)
(* texts stay far from the overflow and subnormal ranges.                  *)
(***************************************************************************)
\* bits of the significand of a binary64
SignificandBits == 53

\* the decimal expansion is cut into limbs of seven bits
LimbBits == 7
LimbBase == 128

\* limbs taken of the integer part, which is below 2^35
IntegerLimbs == 5

\* limbs taken of the fractional part
FractionLimbs == 13

RECURSIVE Pow(_, _)
Pow(b, n) == IF n = 0 THEN 1 ELSE b * Pow(b, n - 1)

FZero(sign) == [kind |-> "zero", sign |-> sign, e |-> 0, m |-> << >>]
FInf(sign) == [kind |-> "inf", sign |-> sign, e |-> 0, m |-> << >>]
FNaN == [kind |-> "nan", sign |-> 0, e |-> 0, m |-> << >>]
FFinite(sign, e, m) == [kind |-> "finite", sign |-> sign, e |-> e, m |-> m]

\* the remainders r, 128 r mod d, 128^2 r mod d, ... of the long division
\* that yields the limbs of r / d
RECURSIVE Remainders(_, _, _)
Remainders(r, d, n) ==
  IF n = 0 THEN << >>
  ELSE << r >> \o Remainders((r * LimbBase) % d, d, n - 1)

\* bit k (1 = highest) of the limb l
LimbBit(l, k) == (l \div Pow(2, LimbBits - k)) % 2

\* the binary expansion of n / d, IntegerLimbs limbs before the point and
\* FractionLimbs limbs after it
Expansion(n, d) ==
  LET rems == Remainders(n % d, d, FractionLimbs)
      whole == n \div d
      limb(j) ==
        IF j <= IntegerLimbs
        THEN (whole \div Pow(LimbBase, IntegerLimbs - j)) % LimbBase
        ELSE (rems[j - IntegerLimbs] * LimbBase) \div d
  IN  [i \in 1..(LimbBits * (IntegerLimbs + FractionLimbs)) |->
         LimbBit(limb(((i - 1) \div LimbBits) + 1), ((i - 1) % LimbBits) + 1)]

\* n / d has bits beyond those of Expansion(n, d)
Inexact(n, d) ==
  LET rems == Remainders(n % d, d, FractionLimbs)
  IN  (rems[FractionLimbs] * LimbBase) % d # 0

\* round to nearest, ties to even: the binary64 of the number whose bits
\* are `bits` (bits[1] has weight 2^top), followed, if sticky, by further
\* non-zero bits
RoundToNearestEven(sign, bits, top, sticky) ==
  LET ones == { i \in 1..Len(bits) : bits[i] = 1 }
  IN
  IF ones = {} THEN FZero(sign)
  ELSE
    LET p == CHOOSE i \in ones : \A j \in ones : i <= j
        bit(i) == IF p + i - 1 <= Len(bits) THEN bits[p + i - 1] ELSE 0
        kept == [i \in 1..SignificandBits |-> bit(i)]
        rest == sticky \/ \E j \in ones : j > p + SignificandBits
        up == bit(SignificandBits + 1) = 1
                /\ (rest \/ kept[SignificandBits] = 1)
        zeros == { i \in 1..SignificandBits : kept[i] = 0 }
    IN
    IF ~up THEN FFinite(sign, top - (p - 1), kept)
    ELSE IF zeros = {}
    THEN FFinite(sign, top - (p - 1) + 1,
                 [i \in 1..SignificandBits |-> IF i = 1 THEN 1 ELSE 0])
    ELSE LET z == CHOOSE i \in zeros : \A j \in zeros : j <= i
         IN  FFinite(sign, top - (p - 1),
                     [i \in 1..SignificandBits |->
                        IF i < z THEN kept[i] ELSE IF i = z THEN 1 ELSE 0])

\* str.lower() on the letters of "inf", "infinity" and "nan"
Lower(s) ==
  [i \in 1..Len(s) |->
     CASE s[i] = "I" -> "i" [] s[i] = "N" -> "n" [] s[i] = "F" -> "f"
       [] s[i] = "A" -> "a" [] s[i] = "T" -> "t" [] s[i] = "Y" -> "y"
       [] OTHER -> s[i]]

\* the spellings of infinity float() accepts, sign aside
InfinityTexts ==
  { << "i", "n", "f" >>, << "i", "n", "f", "i", "n", "i", "t", "y" >> }

\* the spelling of not-a-number float() accepts, sign aside
NaNText == << "n", "a", "n" >>

\* float(s) does not raise ValueError, s already stripped
IsFloat(s) ==
  \/ IsDecimal(s)
  \/ Lower(Unsigned(s)) \in InfinityTexts \cup { NaNText }

\* float(s) for s with IsFloat(s)
float(s) ==
  LET b == Unsigned(s)
      sign == IF Head(s) = "-" THEN 1 ELSE 0
  IN
  IF Lower(b) \in InfinityTexts THEN FInf(sign)
  ELSE IF Lower(b) = NaNText THEN FNaN
  ELSE
    LET p == DigitsEnd(b, 1)
        fraction == Slice(b, p + 1, Len(b))
        n == NatVal(Slice(b, 1, p - 1) \o fraction)
        d == Pow(10, Len(fraction))
    IN  RoundToNearestEven(sign, Expansion(n, d),
                           LimbBits * IntegerLimbs - 1, Inexact(n, d))

\* the bit of weight 2^w of the finite or zero binary64 x
BitAt(x, w) ==
  IF x.kind = "finite" /\ x.e - (SignificandBits - 1) <= w /\ w <= x.e
  THEN x.m[x.e - w + 1] ELSE 0

\* the bits of x of weights 2^top down to 2^bot
Aligned(x, top, bot) == [i \in 1..(top - bot + 1) |-> BitAt(x, top - i + 1)]

\* X < Y for bit strings of one length
BitsLess(X, Y) ==
  \E i \in 1..Len(X) : X[i] < Y[i] /\ \A k \in 1..(i - 1) : X[k] = Y[k]

\* X - Y for bit strings of one length with X >= Y
BitsMinus(X, Y) ==
  LET borrow(i) ==
        \E j \in (i + 1)..Len(X) :
          X[j] < Y[j] /\ \A k \in (i + 1)..(j - 1) : X[k] = Y[k]
  IN  [i \in 1..Len(X) |->
         (X[i] - Y[i] - (IF borrow(i) THEN 1 ELSE 0) + 2) % 2]

\* X + Y for bit strings of one length whose sum has that length
BitsPlus(X, Y) ==
  LET carry(i) ==
        \E j \in (i + 1)..Len(X) :
          X[j] + Y[j] = 2 /\ \A k \in (i + 1)..(j - 1) : X[k] + Y[k] = 1
  IN  [i \in 1..Len(X) |->
         (X[i] + Y[i] + (IF carry(i) THEN 1 ELSE 0)) % 2]

Max(a, b) == IF a >= b THEN a ELSE b
Min(a, b) == IF a <= b THEN a ELSE b

\* the exponent of the lowest bit of x, for the alignment of x with y
LowestExponent(x, y) ==
  IF x.kind = "finite" THEN x.e - (SignificandBits - 1)
  ELSE y.e - (SignificandBits - 1)

\* the exponent of the leading bit of x, for the alignment of x with y
LeadingExponent(x, y) == IF x.kind = "finite" THEN x.e ELSE y.e

\* x - y on binary64 (line 11: actual - expected)
FMinus(x, y) ==
  IF x.kind = "nan" \/ y.kind = "nan" THEN FNaN
  ELSE IF x.kind = "inf"
  THEN IF y.kind = "inf" /\ y.sign = x.sign THEN FNaN ELSE FInf(x.sign)
  ELSE IF y.kind = "inf" THEN FInf(1 - y.sign)
  ELSE IF x.kind = "zero" /\ y.kind = "zero"
  THEN FZero(IF x.sign = 1 /\ y.sign = 0 THEN 1 ELSE 0)
  ELSE
    LET top == Max(LeadingExponent(x, y), LeadingExponent(y, x)) + 1
        bot == Min(LowestExponent(x, y), LowestExponent(y, x))
        X == Aligned(x, top, bot)
        Y == Aligned(y, top, bot)
    IN  IF x.sign # y.sign
        THEN RoundToNearestEven(x.sign, BitsPlus(X, Y), top, FALSE)
        ELSE IF BitsLess(X, Y)
        THEN RoundToNearestEven(1 - x.sign, BitsMinus(Y, X), top, FALSE)
        ELSE IF X = Y THEN FZero(0)
        ELSE RoundToNearestEven(x.sign, BitsMinus(X, Y), top, FALSE)

\* abs(x) on binary64
FAbs(x) == [x EXCEPT !.sign = 0]

\* x < y on binary64, for x >= 0 or NaN and y > 0 finite
FLess(x, y) ==
  CASE x.kind = "nan" -> FALSE
    [] x.kind = "inf" -> FALSE
    [] x.kind = "zero" -> TRUE
    [] OTHER -> \/ x.e < y.e
                \/ x.e = y.e /\ BitsLess(x.m, y.m)

\* a slip: a tolerance of 1e-5
ToleranceTenfold == float(<< "0", ".", "0", "0", "0", "0", "1" >>)

\* the literal 1e-6 of line 11
Tolerance == float(<< "0", ".", "0", "0", "0", "0", "0", "1" >>)

\* a slip: the fallback of line 13 compares the texts as they came
evaluate_output_untrimmed(actual_output, expected_output) ==
  IF IsFloat(strip(actual_output)) /\ IsFloat(strip(expected_output))
  THEN FLess(FAbs(FMinus(float(strip(actual_output)),
                         float(strip(expected_output)))),
             Tolerance)
  ELSE actual_output = expected_output

\* lines 3-13
evaluate_output(actual_output, expected_output) ==
  IF IsFloat(strip(actual_output)) /\ IsFloat(strip(expected_output))
  THEN FLess(FAbs(FMinus(float(strip(actual_output)),
                         float(strip(expected_output)))),
             Tolerance)
  ELSE strip(actual_output) = strip(expected_output)

(***************************************************************************)
(* The values the environment supplies.                                    *)
(***************************************************************************)
\* source texts the Generator / Debugger can return
Sources == {"", "print(8)"}

\* the (input, expected output) pairs test cases are drawn from
TestPool ==
  << [input |-> "5 3", expected |-> <<"8">>],
     [input |-> "x",   expected |-> <<"h", "i">>] >>

\* the test-case sequences explored: one of each length up to MaxTests
TestSequences ==
  { [i \in 1..n |-> TestPool[1 + (i % Len(TestPool))]] : n \in 0..MaxTests }

\* what a program can leave on stdout (stripped by run_code)
Outputs == { <<"8", ".", "0">>, <<"h", "i">> }

\* stderr texts: two traces that differ in a line number only, and the
\* executor's timeout text
ErrLine1 == <<"E", "r", "r", " ", "l", "i", "n", "e", " ", "1">>
ErrLine2 == <<"E", "r", "r", " ", "l", "i", "n", "e", " ", "2", "7">>
ErrTimeout == <<"t", "i", "m", "e", "d", " ", "o", "u", "t">>
Errors == { ErrLine1, ErrLine2, ErrTimeout }

\* the (stdout, stderr) pairs run_code can return
RunResults == [output : Outputs, error : Errors \cup {<<>>}]

(***************************************************************************)
(* Configuration.  The wall-clock limit of main.py:16 is one tick of the   *)
(* model's clock: the clock reads 0 before the limit, 1 at the limit and   *)
(* 2 past it, which is all that `elapsed_time > MAX_EXECUTION_TIME` tells  *)
(* apart.                                                                  *)
(***************************************************************************)
MAX_EXECUTION_TIME == 1

(***************************************************************************)
(* State of one session of solve_task.                                     *)
(***************************************************************************)
VARIABLES
  MAX_ATTEMPTS,            \* main.py:15
  MAX_DUPLICATE_ERRORS,    \* main.py:17
  test_cases,              \* the parameter: a sequence of (input, expected)
  pc,                      \* where solve_task stands
  now,                     \* time.time()
  start_time,
  elapsed_time,
  attempt,
  code,
  final_code,
  feedback_summary,        \* a sequence of entries, one per appended line
  error_history,           \* dict: signature -> count
  all_passed,
  current_attempt_errors,
  idx,                     \* index of the test case the inner loop is at
  termination_reason,      \* None, "time" (line 155) or "stuck" (line 202)
  success_message,         \* 0 while unset, else the attempt named in line 211
  final_code_txt,          \* output/final_code.txt, None while not written
  returned,                \* the value solve_task returns
  oracle_request,          \* the oracle call in flight, None when there is none
  \* history, read by the properties only
  loop_broke,              \* the for loop was left by a break
  attempts_started,        \* attempts that got past the time check
  generate_calls,          \* calls of generate_code so far
  debug_calls,             \* calls of debug_code so far
  attempt_oracle_calls,    \* oracle calls of the current attempt
  attempt_runs,            \* run_code calls of the current attempt
  last_runs,               \* run_code calls of the attempt before it
  outcome_signatures,      \* what the finished attempts recorded
  first_error              \* the stderr of the session's first execution error

(***************************************************************************)
(* State of one call of run_code (executor.py).  solve_task sees such a    *)
(* call as one step (RunTest); its inside is the specification ExecSpec.   *)
(***************************************************************************)
VARIABLES
  call,                    \* the arguments of run_code, None when not called
  ex_pc,                   \* where run_code stands
  temp_file,               \* line 42 / 47
  tmp_dir,                 \* the temporary directory: its files and their content
  stdout,                  \* line 57
  stderr,                  \* line 58
  missing_module,          \* line 63
  pending,                 \* the value of the return statement reached
  raising,                 \* the exception being propagated, None if none
  ret,                     \* what the caller received, None before
  raised,                  \* the call ended by raising to the caller
  classification,          \* what main.py:173-196 made of the result
  \* history, read by the properties only
  child_runs,              \* the subprocess.run calls of lines 49 and 68
  installs,                \* the install_package calls of line 65
  faults,                  \* the steps of the call that failed
  remove_failed            \* os.remove of line 94 raised

executor ==
  << call, ex_pc, temp_file, tmp_dir, stdout, stderr, missing_module, pending,
     raising, ret, raised, classification, child_runs, installs, faults,
     remove_failed >>

(***************************************************************************)
(* State of one call of evaluate_output (evaluator.py), for the            *)
(* specification EvalSpec.                                                 *)
(***************************************************************************)
VARIABLES
  eval_call,               \* the arguments of evaluate_output
  eval_pc,                 \* "called" until evaluate_output has returned
  eval_result              \* its value, once it has returned

evaluator == << eval_call, eval_pc, eval_result >>

(***************************************************************************)
(* State of normalize_error (main.py) applied to a text and then to its    *)
(* own result, for the specification NormSpec.                             *)
(***************************************************************************)
VARIABLES
  norm_call,               \* the argument of the first call
  norm_pc,                 \* "called", "returned" or "returned_again"
  norm_result,             \* normalize_error(norm_call)
  norm_again               \* normalize_error(norm_result)

normalizer == << norm_call, norm_pc, norm_result, norm_again >>

\* the variables of solve_task
session ==
  << MAX_ATTEMPTS, MAX_DUPLICATE_ERRORS, test_cases, pc,
     now, start_time, elapsed_time, attempt, code, final_code,
     feedback_summary, error_history, all_passed, current_attempt_errors, idx,
     termination_reason, success_message, final_code_txt, returned,
     oracle_request, loop_broke, attempts_started, generate_calls, debug_calls,
     attempt_oracle_calls, attempt_runs, last_runs,
     outcome_signatures, first_error >>

vars == << session, executor, evaluator, normalizer >>

\* what no step of solve_task changes: its configuration, and the inside
\* of run_code, of evaluate_output and of normalize_error
config ==
  << MAX_ATTEMPTS, MAX_DUPLICATE_ERRORS, test_cases, start_time, executor,
     evaluator, normalizer >>

\* no call of evaluate_output is looked at
EvaluatorAtRest ==
  /\ eval_call = [actual_output |-> << >>, expected_output |-> << >>]
  /\ eval_pc = "idle"
  /\ eval_result = FALSE

\* no call of normalize_error is looked at
NormalizerAtRest ==
  /\ norm_call = << >>
  /\ norm_pc = "idle"
  /\ norm_result = << >>
  /\ norm_again = << >>

\* no call of run_code is under way
ExecutorAtRest ==
  /\ call = None
  /\ ex_pc = "idle"
  /\ temp_file = None
  /\ tmp_dir = {}
  /\ stdout = << >>
  /\ stderr = << >>
  /\ missing_module = None
  /\ pending = None
  /\ raising = None
  /\ ret = None
  /\ raised = FALSE
  /\ classification = None
  /\ child_runs = << >>
  /\ installs = << >>
  /\ faults = {}
  /\ remove_failed = FALSE

\* the clock is read up to this value; later instants are not told apart
ClockCap == MAX_EXECUTION_TIME + 1

\* time passes while solve_task waits for an oracle or for run_code, the
\* blocking calls of the loop; the statements between them take no time
Later(t) == { u \in t..(t + 1) : u <= ClockCap }

\* a slip: the table is rebuilt with the new entry alone
DictPutForgetting(d, k, v) == [x \in {k} |-> v]

\* error_history[sig] = n, as a dict assignment
DictPut(d, k, v) == [x \in DOMAIN d \cup {k} |-> IF x = k THEN v ELSE d[x]]

\* error_history.get(sig, 0)
DictGet(d, k) == IF k \in DOMAIN d THEN d[k] ELSE 0

\* bool(x) of a source text or None
Truthy(x) == x # None /\ x # ""

\* the line appended at line 183
ErrorEntry(i, error) ==
  [idx |-> i, kind |-> "Execution Error", expected |-> <<>>, got |-> error]

\* the line appended at line 194
MismatchEntry(i, expected_output, output) ==
  [idx |-> i, kind |-> "Expected", expected |-> expected_output, got |-> output]

\* the mark an attempt without execution error leaves in outcome_signatures
NoError == <<"-">>

\* first_error while no run has reported an execution error
NoFirstError == << >>

Init ==
  /\ MAX_ATTEMPTS \in 1..MaxAttempts
  /\ MAX_DUPLICATE_ERRORS \in 1..MaxDup
  /\ test_cases \in TestSequences
  /\ pc = "check_time"
  /\ now = 0
  /\ start_time = 0
  /\ elapsed_time = 0
  /\ attempt = 1
  /\ code = None
  /\ final_code = None
  /\ feedback_summary = <<>>
  /\ error_history = [k \in {} |-> 0]
  /\ all_passed = TRUE
  /\ current_attempt_errors = <<>>
  /\ idx = 1
  /\ termination_reason = None
  /\ success_message = 0
  /\ final_code_txt = None
  /\ returned = None
  /\ oracle_request = [fn |-> None, feedback |-> <<>>]
  /\ loop_broke = FALSE
  /\ attempts_started = 0
  /\ generate_calls = 0
  /\ debug_calls = 0
  /\ attempt_oracle_calls = 0
  /\ attempt_runs = <<>>
  /\ last_runs = <<>>
  /\ outcome_signatures = {}
  /\ first_error = NoFirstError
  /\ ExecutorAtRest
  /\ EvaluatorAtRest
  /\ NormalizerAtRest

(***************************************************************************)
(* solve_task, one action per step between two blocking calls.             *)
(***************************************************************************)
\* line 154
TimeLimitExceeded(elapsed) == elapsed > MAX_EXECUTION_TIME

\* lines 152-158: the time check at the top of an attempt
CheckTime ==
  /\ pc = "check_time"
  /\ elapsed_time' = now - start_time
  /\ IF TimeLimitExceeded(elapsed_time')
     THEN /\ termination_reason' = "time"
          /\ loop_broke' = TRUE
          /\ pc' = "final"
          /\ UNCHANGED << attempts_started, attempt_oracle_calls, attempt_runs >>
     ELSE /\ pc' = "oracle"
          /\ attempts_started' = attempts_started + 1
          /\ attempt_oracle_calls' = 0
          /\ attempt_runs' = <<>>
          /\ UNCHANGED << termination_reason, loop_broke >>
  /\ UNCHANGED << config, now, attempt, code, final_code, feedback_summary,
                  error_history, all_passed, current_attempt_errors, idx,
                  success_message, final_code_txt, returned, oracle_request,
                  generate_calls, debug_calls, last_runs,
                  outcome_signatures, first_error >>

\* a slip: every attempt asks the Generator
OracleAlwaysGenerate(n) == "generate_code"

\* line 163: the collaborator called in this attempt
OracleFor(n) == IF n = 1 THEN "generate_code" ELSE "debug_code"

\* a slip: debug_code is called without the feedback
FeedbackArgumentEmpty == << >>

\* line 163: the feedback argument of debug_code
FeedbackArgument == feedback_summary

\* line 163: the call of generate_code or debug_code is made
CallOracle ==
  /\ pc = "oracle"
  /\ oracle_request' =
       [fn |-> OracleFor(attempt),
        feedback |-> IF OracleFor(attempt) = "debug_code"
                     THEN FeedbackArgument ELSE <<>>]
  /\ generate_calls' =
       generate_calls + (IF OracleFor(attempt) = "generate_code" THEN 1 ELSE 0)
  /\ debug_calls' =
       debug_calls + (IF OracleFor(attempt) = "debug_code" THEN 1 ELSE 0)
  /\ attempt_oracle_calls' = attempt_oracle_calls + 1
  /\ pc' = "oracle_wait"
  /\ UNCHANGED << config, now, elapsed_time, attempt, code, final_code,
                  feedback_summary, error_history, all_passed,
                  current_attempt_errors, idx, termination_reason,
                  success_message, final_code_txt, returned, loop_broke,
                  attempts_started, attempt_runs, last_runs,
                  outcome_signatures, first_error >>

\* a slip: line 168 left out, the feedback accumulates
KeepFeedback(feedback) == feedback

\* line 168
ResetFeedback(feedback) == <<>>

\* lines 163-169: the oracle answers; the attempt's state is reset
OracleReturns ==
  /\ pc = "oracle_wait"
  /\ \E src \in Sources, t \in Later(now) :
       /\ code' = src
       /\ now' = t
  /\ oracle_request' = [fn |-> None, feedback |-> <<>>]
  /\ all_passed' = TRUE
  /\ feedback_summary' = ResetFeedback(feedback_summary)
  /\ current_attempt_errors' = <<>>
  /\ idx' = 1
  /\ last_runs' = <<>>
  /\ pc' = IF test_cases = <<>> THEN "after_tests" ELSE "run_test"
  /\ UNCHANGED << config, elapsed_time, attempt, final_code, error_history,
                  termination_reason, success_message, final_code_txt,
                  returned, loop_broke, attempts_started, generate_calls,
                  debug_calls, attempt_oracle_calls, attempt_runs,
                  outcome_signatures, first_error >>

\* a slip: every run is handled as an execution error
IsExecutionErrorAlways(error) == TRUE

\* a slip: stderr is never looked at
IsExecutionErrorIgnored(error) == FALSE

\* line 173: if error
IsExecutionError(error) == error # <<>>

\* a slip: the breaks of lines 187 and 196 left out
NoBreakOnFailure == FALSE

\* lines 187 and 196: the break that ends the inner loop at a failure
BreakOnFailure == TRUE

\* lines 171-196: one iteration of the loop over the test cases
RunTest ==
  /\ pc = "run_test"
  /\ \E r \in RunResults, t \in Later(now) :
       LET input_data == test_cases[idx].input
           expected_output == test_cases[idx].expected
           normalized_error == normalize_error(r.error)
           more == idx < Len(test_cases)
       IN
       /\ now' = t
       /\ attempt_runs' = Append(attempt_runs,
            [idx |-> idx, input |-> input_data, output |-> r.output,
             error |-> r.error])
       /\ first_error' =
            IF IsExecutionError(r.error) /\ first_error = NoFirstError
            THEN r.error
            ELSE first_error
       /\ IF IsExecutionError(r.error)
          THEN /\ current_attempt_errors' =
                    Append(current_attempt_errors, normalized_error)
               /\ error_history' =
                    DictPut(error_history, normalized_error,
                            DictGet(error_history, normalized_error) + 1)
               /\ feedback_summary' =
                    Append(feedback_summary, ErrorEntry(idx, r.error))
               /\ all_passed' = FALSE
               /\ IF BreakOnFailure \/ ~more
                  THEN pc' = "after_tests" /\ idx' = idx
                  ELSE pc' = "run_test" /\ idx' = idx + 1
          ELSE /\ UNCHANGED << current_attempt_errors, error_history >>
               /\ IF evaluate_output(r.output, expected_output)
                  THEN /\ UNCHANGED << feedback_summary, all_passed >>
                       /\ IF more
                          THEN pc' = "run_test" /\ idx' = idx + 1
                          ELSE pc' = "after_tests" /\ idx' = idx
                  ELSE /\ feedback_summary' =
                            Append(feedback_summary,
                                   MismatchEntry(idx, expected_output, r.output))
                       /\ all_passed' = FALSE
                       /\ IF BreakOnFailure \/ ~more
                          THEN pc' = "after_tests" /\ idx' = idx
                          ELSE pc' = "run_test" /\ idx' = idx + 1
  /\ UNCHANGED << config, elapsed_time, attempt, code, final_code,
                  termination_reason, success_message, final_code_txt,
                  returned, oracle_request, loop_broke, attempts_started,
                  generate_calls, debug_calls, attempt_oracle_calls,
                  last_runs, outcome_signatures >>

\* a slip: the count is held against MAX_ATTEMPTS
repeated_errors_by_attempts ==
  SelectSeq(current_attempt_errors,
            LAMBDA err : DictGet(error_history, err) >= MAX_ATTEMPTS)

\* a slip: > where the code has >=
repeated_errors_strict ==
  SelectSeq(current_attempt_errors,
            LAMBDA err : DictGet(error_history, err) > MAX_DUPLICATE_ERRORS)

\* line 200: the errors of this attempt that reached the threshold
repeated_errors ==
  SelectSeq(current_attempt_errors,
            LAMBDA err : DictGet(error_history, err) >= MAX_DUPLICATE_ERRORS)

\* lines 199-201
StuckDetected == current_attempt_errors # <<>> /\ repeated_errors # <<>>

\* a slip: an attempt passes only if it ran a test case
AttemptPassedWithRuns == all_passed /\ attempt_runs # << >>

\* a slip: a success that arrives after the deadline is thrown away
AttemptPassedBeforeDeadline ==
  all_passed /\ ~(now - start_time > MAX_EXECUTION_TIME)

\* line 209
AttemptPassed == all_passed

\* a slip: range(1, MAX_ATTEMPTS)
HasNextAttemptShort == attempt < MAX_ATTEMPTS - 1

\* a slip: the loop has no upper limit
HasNextAttemptUnbounded == TRUE

\* line 151: range(1, MAX_ATTEMPTS + 1) has a next value
HasNextAttempt == attempt < MAX_ATTEMPTS

\* what the attempt that just ended recorded: its error signature, if any
AttemptOutcome ==
  IF current_attempt_errors # <<>>
  THEN current_attempt_errors[Len(current_attempt_errors)]
  ELSE NoError

\* the history kept when an attempt ends
EndOfAttempt ==
  /\ outcome_signatures' = outcome_signatures \cup {AttemptOutcome}
  /\ last_runs' = attempt_runs
  /\ UNCHANGED << attempts_started, generate_calls, debug_calls,
                  attempt_oracle_calls, attempt_runs, first_error >>

\* a slip: the break of line 207 left out, the loop goes on after the
\* repeated error was reported
StuckWithoutBreak ==
  /\ pc = "after_tests"
  /\ StuckDetected
  /\ HasNextAttempt
  /\ termination_reason' = "stuck"
  /\ attempt' = attempt + 1
  /\ pc' = "check_time"
  /\ EndOfAttempt
  /\ UNCHANGED << config, now, elapsed_time, code, final_code,
                  feedback_summary, error_history, all_passed,
                  current_attempt_errors, idx, success_message,
                  final_code_txt, returned, oracle_request, loop_broke >>

\* lines 199-207: the same error was seen MAX_DUPLICATE_ERRORS times
StuckBreak ==
  /\ pc = "after_tests"
  /\ StuckDetected
  /\ termination_reason' = "stuck"
  /\ loop_broke' = TRUE
  /\ pc' = "final"
  /\ EndOfAttempt
  /\ UNCHANGED << config, now, elapsed_time, attempt, code, final_code,
                  feedback_summary, error_history, all_passed,
                  current_attempt_errors, idx, success_message,
                  final_code_txt, returned, oracle_request >>

\* lines 209-217: every test case passed
SuccessBreak ==
  /\ pc = "after_tests"
  /\ ~StuckDetected
  /\ AttemptPassed
  /\ final_code' = code
  /\ success_message' = attempt
  /\ loop_broke' = TRUE
  /\ pc' = "final"
  /\ EndOfAttempt
  /\ UNCHANGED << config, now, elapsed_time, attempt, code, feedback_summary,
                  error_history, all_passed, current_attempt_errors, idx,
                  termination_reason, final_code_txt, returned,
                  oracle_request >>

\* a slip: a failed attempt runs its test cases again with the same source
\* instead of moving to the next attempt
RetrySameAttempt ==
  /\ pc = "after_tests"
  /\ ~StuckDetected
  /\ ~AttemptPassed
  /\ HasNextAttempt
  /\ test_cases # <<>>
  /\ all_passed' = TRUE
  /\ feedback_summary' = <<>>
  /\ current_attempt_errors' = <<>>
  /\ idx' = 1
  /\ attempt_runs' = <<>>
  /\ pc' = "run_test"
  /\ UNCHANGED << config, now, elapsed_time, attempt, code, final_code,
                  error_history, termination_reason, success_message,
                  final_code_txt, returned, oracle_request, loop_broke,
                  attempts_started, generate_calls, debug_calls,
                  attempt_oracle_calls, last_runs,
                  outcome_signatures, first_error >>

\* line 151: the for loop takes its next value
NextAttempt ==
  /\ pc = "after_tests"
  /\ ~StuckDetected
  /\ ~AttemptPassed
  /\ HasNextAttempt
  /\ attempt' = attempt + 1
  /\ pc' = "check_time"
  /\ EndOfAttempt
  /\ UNCHANGED << config, now, elapsed_time, code, final_code,
                  feedback_summary, error_history, all_passed,
                  current_attempt_errors, idx, termination_reason,
                  success_message, final_code_txt, returned, oracle_request,
                  loop_broke >>

\* line 151: the range is used up, the loop ends without a break
LoopExhausted ==
  /\ pc = "after_tests"
  /\ ~StuckDetected
  /\ ~AttemptPassed
  /\ ~HasNextAttempt
  /\ pc' = "final"
  /\ EndOfAttempt
  /\ UNCHANGED << config, now, elapsed_time, attempt, code, final_code,
                  feedback_summary, error_history, all_passed,
                  current_attempt_errors, idx, termination_reason,
                  success_message, final_code_txt, returned, oracle_request,
                  loop_broke >>

\* line 222: if final_code
HasFinalCode == Truthy(final_code)

\* a slip: the last source is stored whatever the outcome
FinishAlwaysWrites ==
  /\ pc = "final"
  /\ final_code_txt' = code
  /\ returned' = final_code
  /\ pc' = "done"
  /\ UNCHANGED << config, now, elapsed_time, attempt, code, final_code,
                  feedback_summary, error_history, all_passed,
                  current_attempt_errors, idx, termination_reason,
                  success_message, oracle_request, loop_broke,
                  attempts_started, generate_calls, debug_calls,
                  attempt_oracle_calls, attempt_runs, last_runs,
                  outcome_signatures, first_error >>

\* lines 219-252: the final results and the return
Finish ==
  /\ pc = "final"
  /\ final_code_txt' = IF HasFinalCode THEN final_code ELSE final_code_txt
  /\ returned' = final_code
  /\ pc' = "done"
  /\ UNCHANGED << config, now, elapsed_time, attempt, code, final_code,
                  feedback_summary, error_history, all_passed,
                  current_attempt_errors, idx, termination_reason,
                  success_message, oracle_request, loop_broke,
                  attempts_started, generate_calls, debug_calls,
                  attempt_oracle_calls, attempt_runs, last_runs,
                  outcome_signatures, first_error >>

Next ==
  \/ CheckTime
  \/ CallOracle
  \/ OracleReturns
  \/ RunTest
  \/ StuckBreak
  \/ SuccessBreak
  \/ NextAttempt
  \/ LoopExhausted
  \/ Finish

Spec == Init /\ [][Next]_vars

\* every blocking call returns and solve_task keeps running
FairSpec == Spec /\ WF_vars(Next)

(***************************************************************************)
(* Terminal outcomes of a session, read off what solve_task did.           *)
(***************************************************************************)
\* the for loop has been left
Exited == pc \in {"final", "done"}

\* an attempt is under way
InAttempt == pc \in {"oracle", "oracle_wait", "run_test", "after_tests"}

\* the break of line 217 was taken
Success == success_message # 0

\* the break of line 158 was taken
TimedOut == termination_reason = "time"

\* the break of line 207 was taken
Stuck == termination_reason = "stuck"

\* the loop ran out of attempts
Exhausted == Exited /\ ~loop_broke

\* oracle calls made so far
OracleCalls == generate_calls + debug_calls

\* run r of a test case with the given expected output passed
RunPassed(r, expected_output) ==
  r.error = <<>> /\ evaluate_output(r.output, expected_output)

\* every finished attempt recorded an execution error, all with one signature
AllSameError ==
  /\ Cardinality(outcome_signatures) = 1
  /\ NoError \notin outcome_signatures

\* the signature that AllSameError speaks of
TheSignature == CHOOSE sig \in outcome_signatures : TRUE

(***************************************************************************)
(* C1.  A session ends in Success only in an attempt in which every        *)
(* supplied test case, in order, was run with empty stderr and accepted by *)
(* the evaluator; the final result (final_code, and the value returned) is *)
(* the source the oracle produced in that attempt; no attempt is started   *)
(* after it.                                                               *)
(***************************************************************************)
C1_SuccessOnlyWhenAllPass ==
  Success =>
    /\ Exited
    /\ Len(attempt_runs) = Len(test_cases)
    /\ \A i \in 1..Len(test_cases) :
         /\ attempt_runs[i].idx = i
         /\ attempt_runs[i].input = test_cases[i].input
         /\ attempt_runs[i].error = <<>>
         /\ evaluate_output(attempt_runs[i].output, test_cases[i].expected)
    /\ final_code = code
    /\ code \in Sources
    /\ (pc = "done" => returned = code)
    /\ attempt = success_message
    /\ attempts_started = success_message
    /\ OracleCalls = success_message

\* a session that failed once and then passed two test cases, and returned
C1_Witness ==
  /\ pc = "done"
  /\ Success
  /\ success_message = 2
  /\ Len(test_cases) = 2
  /\ returned = "print(8)"

(***************************************************************************)
(* C2.  As claimed: if every attempt's program fails with an execution     *)
(* error of one and the same normalized signature, the session ends Stuck, *)
(* in the attempt in which that signature's count reaches                  *)
(* MAX_DUPLICATE_ERRORS (read with MAX_DUPLICATE_ERRORS <= MAX_ATTEMPTS,   *)
(* so that this attempt exists).                                           *)
(***************************************************************************)
C2_AsClaimed ==
  (pc = "done" /\ AllSameError /\ MAX_DUPLICATE_ERRORS <= MAX_ATTEMPTS) =>
    /\ Stuck
    /\ error_history[TheSignature] = MAX_DUPLICATE_ERRORS

(***************************************************************************)
(* C2, amended.  If every attempt's program fails with an execution error  *)
(* of one and the same normalized signature, MAX_DUPLICATE_ERRORS <=       *)
(* MAX_ATTEMPTS, and the time limit is not found exceeded at the top of an *)
(* attempt before then, the session ends Stuck right after attempt number  *)
(* MAX_DUPLICATE_ERRORS, the one in which the signature's count reaches    *)
(* MAX_DUPLICATE_ERRORS; no oracle is called after that attempt.  In any   *)
(* session that ends Stuck the oracle calls number the attempts made.      *)
(***************************************************************************)
C2_StuckOnRepeatedError ==
  /\ (pc = "done" /\ AllSameError /\ MAX_DUPLICATE_ERRORS <= MAX_ATTEMPTS
        /\ ~TimedOut) =>
       /\ Stuck
       /\ error_history[TheSignature] = MAX_DUPLICATE_ERRORS
       /\ attempt = MAX_DUPLICATE_ERRORS
       /\ attempts_started = MAX_DUPLICATE_ERRORS
       /\ OracleCalls = MAX_DUPLICATE_ERRORS
  /\ Stuck =>
       /\ Exited
       /\ OracleCalls = attempt
       /\ attempts_started = attempt
       /\ oracle_request.fn = None

\* two attempts failed with traces that differ in the line number only
C2_Witness ==
  /\ pc = "done"
  /\ Stuck
  /\ AllSameError
  /\ MAX_DUPLICATE_ERRORS = 2
  /\ attempts_started = 2
  /\ TheSignature = normalize_error(ErrLine1)

(***************************************************************************)
(* C3.  If no attempt passes every test case, no signature's count reaches *)
(* MAX_DUPLICATE_ERRORS and the time limit is never found exceeded at the  *)
(* top of an attempt, the session makes exactly MAX_ATTEMPTS attempts and  *)
(* ends Exhausted.                                                         *)
(***************************************************************************)
C3_ExhaustedAfterMaxAttempts ==
  /\ (/\ pc = "done"
      /\ final_code = None
      /\ \A sig \in DOMAIN error_history :
           error_history[sig] < MAX_DUPLICATE_ERRORS
      /\ elapsed_time <= MAX_EXECUTION_TIME) =>
       /\ Exhausted
       /\ ~Success /\ ~Stuck /\ ~TimedOut
       /\ attempt = MAX_ATTEMPTS
       /\ attempts_started = MAX_ATTEMPTS
       /\ OracleCalls = MAX_ATTEMPTS
  /\ Exhausted => attempts_started = MAX_ATTEMPTS

\* three failed attempts, with execution errors below the threshold
C3_Witness ==
  /\ pc = "done"
  /\ Exhausted
  /\ MAX_ATTEMPTS = 3
  /\ attempts_started = 3
  /\ error_history # [k \in {} |-> 0]
  /\ NoError \in outcome_signatures

(***************************************************************************)
(* C4.  The time limit is checked at the top of an attempt only.  A        *)
(* session that ends TimedOut found elapsed_time > MAX_EXECUTION_TIME      *)
(* there and made no oracle call and no run_code call in that attempt.  An *)
(* attempt that got past the check is never cut short by the clock: no     *)
(* time break is taken inside it, and if it passes every test case the     *)
(* session ends in Success even though the limit went by meanwhile.        *)
(***************************************************************************)
C4_TimeCheckedAtAttemptTopOnly ==
  /\ TimedOut =>
       /\ Exited
       /\ elapsed_time > MAX_EXECUTION_TIME
       /\ attempts_started = attempt - 1
       /\ OracleCalls = attempt - 1
       /\ attempt_runs = last_runs
       /\ oracle_request.fn = None
  /\ InAttempt => ~TimedOut
  /\ (Exited /\ all_passed) => (Success /\ ~TimedOut)
  /\ (Exited /\ elapsed_time <= MAX_EXECUTION_TIME) => ~TimedOut

\* a success that came in after the limit had passed
C4_Witness ==
  /\ pc = "done"
  /\ Success
  /\ now - start_time > MAX_EXECUTION_TIME
  /\ elapsed_time <= MAX_EXECUTION_TIME
  /\ test_cases # <<>>

(***************************************************************************)
(* C5.  The attempt counter always lies in 1..MAX_ATTEMPTS, a step either  *)
(* leaves it alone or, at the end of an attempt, adds exactly one, and the *)
(* oracle calls of a session never number more than MAX_ATTEMPTS.          *)
(***************************************************************************)
C5_AttemptCounterBounded ==
  /\ [](/\ attempt \in 1..MAX_ATTEMPTS
        /\ OracleCalls <= MAX_ATTEMPTS
        /\ attempts_started <= MAX_ATTEMPTS
        /\ (InAttempt => attempts_started = attempt))
  /\ [][\/ attempt' = attempt
        \/ attempt' = attempt + 1 /\ pc = "after_tests" /\ pc' = "check_time"]_vars

\* the last attempt the configuration allows is under way
C5_Witness ==
  /\ pc = "run_test"
  /\ MAX_ATTEMPTS = 3
  /\ attempt = MAX_ATTEMPTS
  /\ OracleCalls = MAX_ATTEMPTS

(***************************************************************************)
(* C6.  No outcome is determined before the loop is left; once it is left  *)
(* exactly one of Success, Exhausted, TimedOut, Stuck holds; from then on  *)
(* the outcome does not change and no attempt is started, no oracle is     *)
(* called and no test case is run.                                         *)
(***************************************************************************)
Outcomes == << Success, Exhausted, TimedOut, Stuck >>

C6_ExactlyOneOutcome ==
  /\ [](IF Exited
        THEN Cardinality({k \in 1..4 : Outcomes[k]}) = 1
        ELSE \A k \in 1..4 : ~Outcomes[k])
  /\ [][Exited =>
          /\ Exited'
          /\ Outcomes' = Outcomes
          /\ UNCHANGED << attempt, attempts_started, generate_calls,
                          debug_calls, attempt_runs, oracle_request, code,
                          final_code, error_history >>]_vars

\* a session that ended Stuck after an earlier attempt failed otherwise
C6_Witness ==
  /\ pc = "done"
  /\ Stuck
  /\ ~Success /\ ~TimedOut /\ ~Exhausted
  /\ attempt = 3
  /\ NoError \in outcome_signatures

(***************************************************************************)
(* C7.  When every oracle call and every run_code call returns, every      *)
(* session reaches its end with one of the four outcomes.                  *)
(***************************************************************************)
C7_SessionTerminates ==
  <>(pc = "done" /\ (Success \/ Exhausted \/ TimedOut \/ Stuck))

\* the longest session: every attempt allowed was made and failed
C7_Witness ==
  /\ pc = "done"
  /\ MAX_ATTEMPTS = MaxAttempts
  /\ attempts_started = MaxAttempts
  /\ Len(attempt_runs) = MaxTests

(***************************************************************************)
(* C8.  generate_code is called exactly once, in attempt 1; every attempt  *)
(* from the second on that gets past the time check calls debug_code       *)
(* exactly once and never generate_code; an attempt makes its one oracle   *)
(* call before it runs any test case.                                      *)
(***************************************************************************)
\* attempts whose oracle call has been made
AttemptsWithCall == attempts_started - (IF pc = "oracle" THEN 1 ELSE 0)

C8_OneOracleCallPerAttempt ==
  /\ generate_calls = (IF AttemptsWithCall >= 1 THEN 1 ELSE 0)
  /\ debug_calls = (IF AttemptsWithCall >= 1 THEN AttemptsWithCall - 1 ELSE 0)
  /\ pc = "oracle" => attempt_oracle_calls = 0 /\ attempt_runs = <<>>
  /\ pc = "oracle_wait" =>
       /\ attempt_oracle_calls = 1
       /\ attempt_runs = <<>>
       /\ oracle_request.fn = (IF attempt = 1 THEN "generate_code" ELSE "debug_code")
  /\ pc \in {"run_test", "after_tests"} =>
       attempt_oracle_calls = 1 /\ oracle_request.fn = None
  /\ pc = "done" => generate_calls = 1

\* the third attempt has asked the Debugger and is running its tests
C8_Witness ==
  /\ pc = "run_test"
  /\ attempt = 3
  /\ generate_calls = 1
  /\ debug_calls = 2
  /\ attempt_runs # <<>>

(***************************************************************************)
(* C9.  The feedback is not cumulative: what debug_code is given in        *)
(* attempt k >= 2 is exactly the feedback of the test results of attempt   *)
(* k-1, and within an attempt feedback_summary holds the entries of that   *)
(* attempt's own runs only (it is empty before the first test case runs).  *)
(***************************************************************************)
\* the lines the runs of one attempt put into the feedback
RECURSIVE FeedbackOf(_)
FeedbackOf(runs) ==
  IF runs = <<>> THEN <<>>
  ELSE LET r == Head(runs)
           expected_output == test_cases[r.idx].expected
       IN  (IF r.error # <<>>
            THEN <<ErrorEntry(r.idx, r.error)>>
            ELSE IF evaluate_output(r.output, expected_output)
                 THEN <<>>
                 ELSE <<MismatchEntry(r.idx, expected_output, r.output)>>)
           \o FeedbackOf(Tail(runs))

C9_FeedbackNotCumulative ==
  /\ (pc = "oracle_wait" /\ oracle_request.fn = "debug_code") =>
       /\ attempt >= 2
       /\ oracle_request.feedback = FeedbackOf(last_runs)
  /\ pc \in {"run_test", "after_tests"} =>
       feedback_summary = FeedbackOf(attempt_runs)
  /\ (pc = "run_test" /\ attempt_runs = <<>>) => feedback_summary = <<>>

\* the Debugger is asked in attempt 3, after two attempts that failed in
\* different ways
C9_Witness ==
  /\ pc = "oracle_wait"
  /\ attempt = 3
  /\ oracle_request.fn = "debug_code"
  /\ Len(oracle_request.feedback) = 1
  /\ Cardinality(outcome_signatures) = 2

(***************************************************************************)
(* C10.  Within an attempt the test cases are run in the order supplied,   *)
(* every run before the last one passed, and when the attempt's loop is    *)
(* over the number of run_code calls is the position of the first failing  *)
(* test case, or the number of test cases when all passed.                 *)
(***************************************************************************)
C10_FailFast ==
  InAttempt =>
    /\ Len(attempt_runs) <= Len(test_cases)
    /\ \A i \in 1..Len(attempt_runs) :
         /\ attempt_runs[i].idx = i
         /\ attempt_runs[i].input = test_cases[i].input
         /\ (i < Len(attempt_runs) =>
               RunPassed(attempt_runs[i], test_cases[i].expected))
    /\ pc = "run_test" =>
         /\ idx = Len(attempt_runs) + 1
         /\ \A i \in 1..Len(attempt_runs) :
              RunPassed(attempt_runs[i], test_cases[i].expected)
    /\ (pc = "after_tests" /\ test_cases # <<>>) =>
         LET n == Len(attempt_runs)
         IN  /\ n >= 1
             /\ \/ ~RunPassed(attempt_runs[n], test_cases[n].expected)
                \/ n = Len(test_cases)
             /\ all_passed = RunPassed(attempt_runs[n], test_cases[n].expected)

\* the first of two test cases failed and the second was not run
C10_Witness ==
  /\ pc = "after_tests"
  /\ Len(test_cases) = 2
  /\ Len(attempt_runs) = 1
  /\ ~all_passed

(***************************************************************************)
(* C11.  Across a session the error-frequency table only grows: the count  *)
(* of every signature never decreases, no signature is ever removed, and   *)
(* each attempt increments at most one signature, by exactly one, so the   *)
(* sum of all counts never exceeds the number of attempts started.         *)
(***************************************************************************)
RECURSIVE SumOver(_, _)
SumOver(d, keys) ==
  IF keys = {} THEN 0
  ELSE LET k == CHOOSE x \in keys : TRUE IN d[k] + SumOver(d, keys \ {k})

\* the sum of all counts of error_history
SumCounts(d) == SumOver(d, DOMAIN d)

\* the signatures whose count differs between two tables
Incremented(d, e) == { s \in DOMAIN e : DictGet(d, s) # e[s] }

C11_ErrorHistoryOnlyGrows ==
  /\ [](/\ SumCounts(error_history) <= attempts_started
        /\ Len(current_attempt_errors) <= 1
        /\ \A s \in DOMAIN error_history : error_history[s] >= 1)
  /\ [][/\ \A s \in DOMAIN error_history :
              /\ s \in DOMAIN error_history'
              /\ error_history'[s] >= error_history[s]
        /\ Cardinality(Incremented(error_history, error_history')) <= 1
        /\ \A s \in Incremented(error_history, error_history') :
              /\ error_history'[s] = DictGet(error_history, s) + 1
              \* the increment ends the attempt's test loop
              /\ pc = "run_test" /\ pc' = "after_tests"
              /\ current_attempt_errors = <<>>]_vars

\* three attempts, each with an execution error: one signature seen twice,
\* another once
C11_Witness ==
  /\ Cardinality(DOMAIN error_history) = 2
  /\ SumCounts(error_history) = 3
  /\ attempts_started = 3
  /\ \E s \in DOMAIN error_history : error_history[s] = 2

(***************************************************************************)
(* C12.  The result store (output/final_code.txt) is written only in a     *)
(* session that ends in Success: no session that ends Exhausted, TimedOut  *)
(* or Stuck writes to it, and it is never written before the terminal      *)
(* outcome is determined.                                                  *)
(***************************************************************************)
\* output/final_code.txt was written in this session
StoreWritten == final_code_txt # None

C12_StoreWrittenOnlyOnSuccess ==
  /\ StoreWritten => Success /\ pc = "done"
  /\ (Exhausted \/ TimedOut \/ Stuck) => ~StoreWritten
  /\ ~Exited => ~StoreWritten

\* a session that failed its first attempt, passed its second and stored
\* that attempt's source
C12_Witness ==
  /\ pc = "done"
  /\ Success
  /\ attempt = 2
  /\ StoreWritten
  /\ final_code_txt = code

(***************************************************************************)
(* C13.  On Success, the final source text is persisted to the result      *)
(* store: for every source text the oracle can return (including the empty *)
(* string), a session whose attempt passed every test case writes that     *)
(* attempt's source to the result store and reports the session as solved. *)
(***************************************************************************)
\* lines 222-231: the session is reported as solved (FINAL WORKING CODE)
ReportedSolved == pc = "done" /\ HasFinalCode

\* lines 232-237: the session is reported as failed
ReportedFailed == pc = "done" /\ ~HasFinalCode

\* the claim as stated: violated by a passing attempt whose source is the
\* empty string, which line 222 takes for "no final code"
C13_AsClaimed ==
  (pc = "done" /\ Success) =>
    /\ StoreWritten
    /\ final_code_txt = code
    /\ ReportedSolved

\* what the code does guarantee: a passing attempt with a non-empty source
\* is stored and reported as solved, and any passing attempt's source is
\* what solve_task returns
C13_NonEmptySourcePersisted ==
  (pc = "done" /\ Success) =>
    /\ returned = code
    /\ code # "" => /\ StoreWritten
                    /\ final_code_txt = code
                    /\ ReportedSolved
    /\ code = "" => ~StoreWritten /\ ReportedFailed

\* a session whose passing attempt had an empty source
C13_EmptySourceLost ==
  /\ pc = "done"
  /\ Success
  /\ code = ""
  /\ ~StoreWritten
  /\ ReportedFailed

(***************************************************************************)
(* run_code and install_package (executor.py).                             *)
(***************************************************************************)
\* "ModuleNotFoundError", the text looked for at line 60
ModuleNotFoundErrorText ==
  <<"M", "o", "d", "u", "l", "e", "N", "o", "t", "F", "o", "u", "n", "d",
     "E", "r", "r", "o", "r" >>

\* "No module named ", the fixed part of the pattern of line 61
NoModuleNamed ==
  <<"N", "o", " ", "m", "o", "d", "u", "l", "e", " ", "n", "a", "m", "e",
     "d", " " >>

\* stderr of a child that imports the missing module ab
StderrMissingAb ==
  <<"M", "o", "d", "u", "l", "e", "N", "o", "t", "F", "o", "u", "n", "d",
     "E", "r", "r", "o", "r", ":", " ", "N", "o", " ", "m", "o", "d", "u",
     "l", "e", " ", "n", "a", "m", "e", "d", " ", "'", "a", "b", "'", "\n" >>

\* stderr of a child that imports the missing module cd
StderrMissingCd ==
  <<"M", "o", "d", "u", "l", "e", "N", "o", "t", "F", "o", "u", "n", "d",
     "E", "r", "r", "o", "r", ":", " ", "N", "o", " ", "m", "o", "d", "u",
     "l", "e", " ", "n", "a", "m", "e", "d", " ", "'", "c", "d", "'", "\n" >>

\* stderr of a child that raises ModuleNotFoundError with a text of its own
StderrUnnamed ==
  <<"M", "o", "d", "u", "l", "e", "N", "o", "t", "F", "o", "u", "n", "d",
     "E", "r", "r", "o", "r", ":", " ", "a", "b", "\n" >>

\* stderr of a child that only warns
StderrWarning ==
  <<"W", "a", "r", "n", " ", "l", "i", "n", "e", " ", "3", "\n" >>

\* stderr that holds white space only
StderrBlank ==
  <<" ", "\n" >>

\* line 86 (without its leading pictogram)
ErrNoInterpreter ==
  <<"P", "y", "t", "h", "o", "n", " ", "i", "n", "t", "e", "r", "p", "r",
     "e", "t", "e", "r", " ", "n", "o", "t", " ", "f", "o", "u", "n", "d" >>

\* line 89 (without its leading pictogram); str(e) may be any text, the
\* empty one here
ErrExecutionFailed ==
  <<"E", "x", "e", "c", "u", "t", "i", "o", "n", " ", "f", "a", "i", "l",
     "e", "d", ":", " " >>

\* line 78: f"Failed to install required package '{missing_module}'"
ErrInstallFailed(name) ==
  <<"F", "a", "i", "l", "e", "d", " ", "t", "o", " ", "i", "n", "s", "t",
     "a", "l", "l", " ", "r", "e", "q", "u", "i", "r", "e", "d", " ", "p",
     "a", "c", "k", "a", "g", "e", " ", "'" >>
    \o name \o << "'" >>

\* what a child can write to its stdout
ChildStdouts == { << "8", "\n" >>, << "h", "i" >>, << >> }

\* what a child can write to its stderr
ChildStderrs ==
  { << >>, StderrBlank, StderrWarning, StderrMissingAb, StderrMissingCd,
    StderrUnnamed }

\* the CompletedProcess of lines 49 and 68
ChildResults ==
  [stdout : ChildStdouts, stderr : ChildStderrs, returncode : {0, 1}]

\* what ends subprocess.run, NamedTemporaryFile or write other than a
\* normal return: the classes the handlers of lines 82-89 tell apart
Exceptions == { "TimeoutExpired", "FileNotFoundError", "Exception" }

\* how `pip install` can end (lines 12-29)
InstallResults ==
  { "returncode 0", "returncode 1", "TimeoutExpired", "Exception" }

\* the name NamedTemporaryFile gives the file of a call
TempName == "tmpab12cd.py"

\* the calls of run_code explored: a source, a stdin text and, for the
\* caller's verdict, the expected output of that test case
Calls ==
  { [code |-> src, input_data |-> TestPool[i].input,
     expected_output |-> TestPool[i].expected] :
       src \in Sources, i \in 1..Len(TestPool) }

\* the tuple run_code returns
Pair(out, err) == [stdout |-> out, stderr |-> err]

\* `p in s` for strings
Contains(s, p) == \E i \in 1..Len(s) : HasPrefix(s, i, p)

\* line 60: stderr and "ModuleNotFoundError" in stderr
MissingDependency(err) ==
  err # << >> /\ Contains(err, ModuleNotFoundErrorText)

\* ['\"] of the pattern of line 61
IsQuote(c) == c \in { "'", "\"" }

\* first index >= j of s that holds a quote, Len(s) + 1 if there is none
RECURSIVE NameEnd(_, _)
NameEnd(s, j) ==
  IF j <= Len(s) /\ ~IsQuote(s[j]) THEN NameEnd(s, j + 1) ELSE j

\* the pattern of line 61 matches s at index i
MatchAt(s, i) ==
  /\ HasPrefix(s, i, NoModuleNamed)
  /\ LET q == i + Len(NoModuleNamed) IN
       /\ q <= Len(s)
       /\ IsQuote(s[q])
       /\ NameEnd(s, q + 1) > q + 1
       /\ NameEnd(s, q + 1) <= Len(s)

\* lines 61-63: group 1 of the leftmost match, None without a match
module_match(s) ==
  IF \E i \in 1..Len(s) : MatchAt(s, i)
  THEN LET i == CHOOSE k \in 1..Len(s) :
                  MatchAt(s, k) /\ \A l \in 1..(k - 1) : ~MatchAt(s, l)
           q == i + Len(NoModuleNamed)
       IN  Slice(s, q + 1, NameEnd(s, q + 1) - 1)
  ELSE None

\* a slip: a missing module is never installed
InstallNeverWanted(err) == FALSE

\* lines 60-62: an installation is tried for this stderr
InstallWanted(err) == MissingDependency(err) /\ module_match(err) # None

\* a slip: the child is run again whatever pip said
install_package_trusting(result) == TRUE

\* lines 18-29: the value of install_package
install_package(result) == result = "returncode 0"

\* a slip: only the timeout has an except clause
CaughtTimeoutOnly(exc) == exc = "TimeoutExpired"

\* lines 82-89: the except clauses take the exception
Caught(exc) == exc \in { "TimeoutExpired", "FileNotFoundError", "Exception" }

\* lines 82-89: what the except clause of the exception returns
Handler(exc) ==
  CASE exc = "TimeoutExpired" -> Pair(<< >>, ErrTimeout)
    [] exc = "FileNotFoundError" -> Pair(<< >>, ErrNoInterpreter)
    [] OTHER -> Pair(<< >>, ErrExecutionFailed)

\* solve_task is not running
SessionAtRest ==
  /\ MAX_ATTEMPTS = 1
  /\ MAX_DUPLICATE_ERRORS = 1
  /\ test_cases = << >>
  /\ pc = "check_time"
  /\ now = 0
  /\ start_time = 0
  /\ elapsed_time = 0
  /\ attempt = 1
  /\ code = None
  /\ final_code = None
  /\ feedback_summary = << >>
  /\ error_history = [k \in {} |-> 0]
  /\ all_passed = TRUE
  /\ current_attempt_errors = << >>
  /\ idx = 1
  /\ termination_reason = None
  /\ success_message = 0
  /\ final_code_txt = None
  /\ returned = None
  /\ oracle_request = [fn |-> None, feedback |-> << >>]
  /\ loop_broke = FALSE
  /\ attempts_started = 0
  /\ generate_calls = 0
  /\ debug_calls = 0
  /\ attempt_oracle_calls = 0
  /\ attempt_runs = << >>
  /\ last_runs = << >>
  /\ outcome_signatures = {}
  /\ first_error = NoFirstError

ExecInit ==
  SessionAtRest /\ ExecutorAtRest /\ EvaluatorAtRest /\ NormalizerAtRest

\* lines 31-42: run_code is called
CallRunCode ==
  /\ ex_pc = "idle"
  /\ call' \in Calls
  /\ temp_file' = None
  /\ ex_pc' = "create"
  /\ UNCHANGED << session, evaluator, normalizer, tmp_dir, stdout, stderr, missing_module, pending,
                  raising, ret, raised, classification, child_runs, installs,
                  faults, remove_failed >>

\* a file of the temporary directory
File(name, content) == [name |-> name, content |-> content]

\* os.path.exists(name)
Exists(name) == \E f \in tmp_dir : f.name = name

\* what the interpreter reads from the file
ContentOf(name) == (CHOOSE f \in tmp_dir : f.name = name).content

\* an exception leaves the try block of lines 44-80: an except clause of
\* lines 82-89 sets the return value, or the exception goes on
Raise(exc) ==
  /\ pending' = IF Caught(exc) THEN Handler(exc) ELSE None
  /\ raising' = IF Caught(exc) THEN None ELSE exc
  /\ ex_pc' = "finally"

\* where creating and filling the file can fail, and with what
CreateFaults ==
  { << "NamedTemporaryFile", "FileNotFoundError" >>,
    << "NamedTemporaryFile", "Exception" >>,
    << "write", "Exception" >>,
    << "close", "Exception" >> }

\* lines 45-47: the source is written to a fresh temporary file
CreateTempFile ==
  /\ ex_pc = "create"
  /\ \/ /\ tmp_dir' = tmp_dir \cup { File(TempName, call.code) }
        /\ temp_file' = TempName
        /\ ex_pc' = "run"
        /\ UNCHANGED << pending, raising, faults >>
     \/ \E fault \in CreateFaults :
          /\ faults' = faults \cup { fault[1] }
          /\ Raise(fault[2])
          /\ CASE fault[1] = "NamedTemporaryFile" ->
                    \* no file was created
                    UNCHANGED << tmp_dir, temp_file >>
               [] fault[1] = "write" ->
                    \* the file exists (delete=False), line 47 is not reached
                    /\ tmp_dir' = tmp_dir \cup { File(TempName, "") }
                    /\ UNCHANGED temp_file
               [] OTHER ->
                    \* line 47 was reached, leaving the with block fails
                    /\ tmp_dir' = tmp_dir \cup { File(TempName, "") }
                    /\ temp_file' = TempName
  /\ UNCHANGED << session, evaluator, normalizer, call, stdout, stderr, missing_module, ret, raised,
                  classification, child_runs, installs, remove_failed >>

\* the result field of a subprocess.run that ended by an exception
NoResult == [stdout |-> << >>, stderr |-> << >>, returncode |-> -1]

\* one subprocess.run(['python', temp_file], input=input_data, ...): what
\* the child read, and the exception or the CompletedProcess it ended with
ChildRun(exc, result) ==
  [source |-> ContentOf(temp_file), stdin |-> call.input_data,
   exception |-> exc, result |-> result]

\* lines 49-63 and 80: the child runs; its stderr decides what follows
RunChild ==
  /\ ex_pc = "run"
  /\ \/ \E exc \in Exceptions :
          /\ child_runs' = Append(child_runs, ChildRun(exc, NoResult))
          /\ faults' = faults \cup { "run" }
          /\ Raise(exc)
          /\ UNCHANGED << stdout, stderr, missing_module >>
     \/ \E r \in ChildResults :
          /\ child_runs' = Append(child_runs, ChildRun(None, r))
          /\ stdout' = strip(r.stdout)
          /\ stderr' = strip(r.stderr)
          /\ IF InstallWanted(stderr')
             THEN /\ missing_module' = module_match(stderr')
                  /\ ex_pc' = "install"
                  /\ UNCHANGED pending
             ELSE /\ pending' = Pair(stdout', stderr')
                  /\ ex_pc' = "finally"
                  /\ UNCHANGED missing_module
          /\ UNCHANGED << raising, faults >>
  /\ UNCHANGED << session, evaluator, normalizer, call, temp_file, tmp_dir, ret, raised,
                  classification, installs, remove_failed >>

\* lines 65, 77-78 with install_package (lines 8-29): pip is run once
InstallMissing ==
  /\ ex_pc = "install"
  /\ \E result \in InstallResults :
       /\ installs' =
            Append(installs, [package |-> missing_module, result |-> result])
       /\ IF install_package(result)
          THEN /\ ex_pc' = "retry"
               /\ UNCHANGED << pending, faults >>
          ELSE /\ pending' = Pair(<< >>, ErrInstallFailed(missing_module))
               /\ faults' = faults \cup { "install" }
               /\ ex_pc' = "finally"
  /\ UNCHANGED << session, evaluator, normalizer, call, temp_file, tmp_dir, stdout, stderr,
                  missing_module, raising, ret, raised, classification,
                  child_runs, remove_failed >>

\* a slip: the second subprocess.run stands outside the try block
RetryOutsideTry == FALSE

\* the subprocess.run of line 68 stands inside the try block of line 44
RetryInTry == TRUE

\* lines 68-76: the child is run once more; its result is returned
RetryChild ==
  /\ ex_pc = "retry"
  /\ \/ \E exc \in Exceptions :
          /\ child_runs' = Append(child_runs, ChildRun(exc, NoResult))
          /\ faults' = faults \cup { "retry" }
          /\ IF RetryInTry
             THEN Raise(exc)
             ELSE /\ raising' = exc
                  /\ ex_pc' = "finally"
                  /\ UNCHANGED pending
     \/ \E r \in ChildResults :
          /\ child_runs' = Append(child_runs, ChildRun(None, r))
          /\ pending' = Pair(strip(r.stdout), strip(r.stderr))
          /\ ex_pc' = "finally"
          /\ UNCHANGED << raising, faults >>
  /\ UNCHANGED << session, evaluator, normalizer, call, temp_file, tmp_dir, stdout, stderr,
                  missing_module, ret, raised, classification, installs,
                  remove_failed >>

\* line 92: if temp_file and os.path.exists(temp_file)
RemoveWanted == temp_file # None /\ temp_file # "" /\ Exists(temp_file)

\* lines 91-96: the finally clause, then the return (or the exception)
Cleanup ==
  /\ ex_pc = "finally"
  /\ IF RemoveWanted
     THEN \/ /\ tmp_dir' = { f \in tmp_dir : f.name # temp_file }
             /\ UNCHANGED remove_failed
          \/ \* os.remove raises; lines 95-96 swallow it
             /\ remove_failed' = TRUE
             /\ UNCHANGED tmp_dir
     ELSE UNCHANGED << tmp_dir, remove_failed >>
  /\ IF raising # None
     THEN /\ raised' = TRUE
          /\ ex_pc' = "raised"
          /\ UNCHANGED ret
     ELSE /\ ret' = pending
          /\ ex_pc' = "returned"
          /\ UNCHANGED raised
  /\ UNCHANGED << session, evaluator, normalizer, call, temp_file, stdout, stderr, missing_module,
                  pending, raising, classification, child_runs, installs,
                  faults >>

\* the exit code of the child whose result run_code returned last
LastReturnCode ==
  IF child_runs = << >> THEN -1
  ELSE child_runs[Len(child_runs)].result.returncode

\* a slip: the caller goes by the child's exit code
ClassifyByExitCode ==
  /\ ex_pc = "returned"
  /\ classification' =
       IF LastReturnCode # 0 THEN "execution error"
       ELSE IF evaluate_output(ret.stdout, call.expected_output)
            THEN "passed" ELSE "failed"
  /\ ex_pc' = "classified"
  /\ UNCHANGED << session, evaluator, normalizer, call, temp_file, tmp_dir, stdout, stderr,
                  missing_module, pending, raising, ret, raised, child_runs,
                  installs, faults, remove_failed >>

\* main.py:172-196: what the caller makes of the pair it received
Classify ==
  /\ ex_pc = "returned"
  /\ classification' =
       IF IsExecutionError(ret.stderr) THEN "execution error"
       ELSE IF evaluate_output(ret.stdout, call.expected_output)
            THEN "passed" ELSE "failed"
  /\ ex_pc' = "classified"
  /\ UNCHANGED << session, evaluator, normalizer, call, temp_file, tmp_dir, stdout, stderr,
                  missing_module, pending, raising, ret, raised, child_runs,
                  installs, faults, remove_failed >>

ExecNext ==
  \/ CallRunCode
  \/ CreateTempFile
  \/ RunChild
  \/ InstallMissing
  \/ RetryChild
  \/ Cleanup
  \/ Classify

\* one call of run_code and the verdict of its caller
ExecSpec == ExecInit /\ [][ExecNext]_vars

\* run_code has returned to its caller
Returned == ex_pc \in { "returned", "classified" }

\* run_code has ended, by a return or by an exception
Ended == Returned \/ ex_pc = "raised"

(***************************************************************************)
(* C14.  A test case is classified as an execution error if and only if    *)
(* the executor returned a non-empty stderr, independently of the child's  *)
(* exit code and of its stdout; when stderr is empty, pass/fail is decided *)
(* only by the evaluator on stdout versus the expected output.             *)
(***************************************************************************)
C14_ErrorIffStderr ==
  ex_pc = "classified" =>
    /\ classification = "execution error" <=> ret.stderr # << >>
    /\ ret.stderr = << >> =>
         (classification = "passed" <=>
            evaluate_output(ret.stdout, call.expected_output))
    /\ classification \in { "execution error", "passed", "failed" }

\* a child that exits with 0 and prints the expected output, yet is an
\* execution error because it wrote a warning to stderr
C14_Witness ==
  /\ ex_pc = "classified"
  /\ LastReturnCode = 0
  /\ evaluate_output(ret.stdout, call.expected_output)
  /\ ret.stderr # << >>
  /\ classification = "execution error"

\* a child that exits with 1 and leaves stderr empty passes
C14_PassDespiteExitCode ==
  /\ ex_pc = "classified"
  /\ LastReturnCode = 1
  /\ classification = "passed"

(***************************************************************************)
(* C15.  For every call of the executor (run_code), the temporary file     *)
(* created for that call no longer exists when the call returns, on every  *)
(* exit path: normal return, timeout, exception raised while writing the   *)
(* source or spawning the child, and the dependency install-and-retry      *)
(* path.                                                                   *)
(***************************************************************************)
\* the claim as stated, even granting that os.remove itself never fails:
\* violated when f.write raises, because temp_file is assigned after the
\* write (line 47) and the finally clause then has no name to remove
C15_AsClaimed == (Ended /\ ~remove_failed) => tmp_dir = {}

\* what the code does guarantee: the file is gone unless writing it failed
\* or os.remove raised
C15_RemovedUnlessWriteFailed ==
  (Ended /\ tmp_dir # {}) => ("write" \in faults \/ remove_failed)

\* run_code has returned and the file of the call is still there
C15_FileLeft ==
  /\ Returned
  /\ "write" \in faults
  /\ ~remove_failed
  /\ Exists(TempName)
  /\ temp_file = None

(***************************************************************************)
(* C16.  When a child run exceeds the execution timeout, whether it is the *)
(* first run or the re-run after a dependency installation, the executor   *)
(* returns an empty stdout together with a non-empty timeout error text    *)
(* and does not raise to its caller.                                       *)
(***************************************************************************)
\* the i-th child run was ended by the timeout of lines 54 / 73
TimedOutRun(i) == child_runs[i].exception = "TimeoutExpired"

C16_TimeoutReturned ==
  \A i \in 1..Len(child_runs) :
    TimedOutRun(i) =>
      /\ i = Len(child_runs)
      /\ ex_pc \in { "finally", "returned", "classified" }
      /\ raising = None /\ ~raised
      /\ ex_pc = "finally" => pending = Pair(<< >>, ErrTimeout)
      /\ Returned => ret = Pair(<< >>, ErrTimeout)
      /\ ErrTimeout # << >>

\* the re-run after a successful installation timed out and run_code
\* returned
C16_Witness ==
  /\ Returned
  /\ Len(child_runs) = 2
  /\ Len(installs) = 1
  /\ TimedOutRun(2)
  /\ ret.stdout = << >>

(***************************************************************************)
(* C17.  Within one executor call, at most one package installation is     *)
(* attempted and the child program is run at most twice: a second run      *)
(* happens only after a missing-dependency stderr on the first run         *)
(* followed by a successful install, it uses the same source and stdin,    *)
(* and its result is returned as final even if it again reports a missing  *)
(* dependency; after a failed install there is no second run and the call  *)
(* returns empty stdout with an error naming the dependency.               *)
(***************************************************************************)
\* the i-th child run ended normally
Completed(i) == child_runs[i].exception = None

\* stderr of the i-th child run as lines 58 / 76 read it
StderrOf(i) == strip(child_runs[i].result.stderr)

\* stdout of the i-th child run as lines 57 / 76 read it
StdoutOf(i) == strip(child_runs[i].result.stdout)

\* pip ended with exit code 0
InstallSucceeded == installs # << >> /\ installs[1].result = "returncode 0"

\* pip was run and did not end with exit code 0
InstallFailed == installs # << >> /\ installs[1].result # "returncode 0"

C17_OneInstallOneRetry ==
  /\ Len(installs) <= 1
  /\ Len(child_runs) <= 2
  /\ installs # << >> =>
       /\ child_runs # << >>
       /\ Completed(1)
       /\ MissingDependency(StderrOf(1))
       /\ installs[1].package = module_match(StderrOf(1))
       /\ installs[1].package # None
  /\ Len(child_runs) = 2 =>
       /\ InstallSucceeded
       /\ child_runs[2].source = child_runs[1].source
       /\ child_runs[2].source = call.code
       /\ child_runs[2].stdin = child_runs[1].stdin
       /\ child_runs[2].stdin = call.input_data
       /\ (Returned /\ Completed(2)) => ret = Pair(StdoutOf(2), StderrOf(2))
  /\ InstallFailed =>
       /\ Len(child_runs) = 1
       /\ Returned =>
            /\ ret.stdout = << >>
            /\ ret.stderr = ErrInstallFailed(installs[1].package)
            /\ Contains(ret.stderr, installs[1].package)

\* the module ab was installed, the re-run misses the module cd, and that
\* is what run_code returned
C17_Witness ==
  /\ Returned
  /\ Len(child_runs) = 2
  /\ installs[1].package = << "a", "b" >>
  /\ Completed(2)
  /\ StderrOf(2) = strip(StderrMissingCd)
  /\ InstallWanted(StderrOf(2))
  /\ ret.stderr = StderrOf(2)

(***************************************************************************)
(* C18.  A missing-dependency failure of the executed program surfaces to  *)
(* the Orchestrator as an execution error (non-empty stderr from run_code) *)
(* only when the installation of the dependency itself failed; in every    *)
(* other case the missing dependency is resolved inside the executor and   *)
(* is not observed by the Orchestrator.                                    *)
(***************************************************************************)
\* the first run of the child reported a missing dependency
FirstRunMissing ==
  child_runs # << >> /\ Completed(1) /\ MissingDependency(StderrOf(1))

\* the stderr the Orchestrator received is about a missing dependency: the
\* child's own report of it, or the executor's text of line 78
DependencyObserved ==
  /\ Returned
  /\ IsExecutionError(ret.stderr)
  /\ \/ MissingDependency(ret.stderr)
     \/ missing_module # None /\ ret.stderr = ErrInstallFailed(missing_module)

\* the claim as stated: violated when the re-run after a successful
\* installation reports a missing dependency again
C18_AsClaimed == (FirstRunMissing /\ DependencyObserved) => InstallFailed

\* the re-run reported a missing dependency again
RetryMissing ==
  Len(child_runs) = 2 /\ Completed(2) /\ MissingDependency(StderrOf(2))

\* stderr mentions ModuleNotFoundError but names no module
NoNameFound == installs = << >> /\ module_match(StderrOf(1)) = None

\* C18 amended: the missing dependency is observed only if the install
\* failed, or the re-run after a successful install reports a missing
\* dependency again, or no module name could be read from stderr; and a
\* failed install is always observed
C18_DependencySurfaces ==
  /\ (FirstRunMissing /\ DependencyObserved) =>
       \/ InstallFailed
       \/ InstallSucceeded /\ RetryMissing
       \/ NoNameFound
  /\ (Returned /\ InstallFailed) => DependencyObserved

\* the install succeeded, the re-run ran clean, and the Orchestrator sees
\* no error
C18_Witness ==
  /\ ex_pc = "classified"
  /\ FirstRunMissing
  /\ InstallSucceeded
  /\ Completed(2)
  /\ ret.stderr = << >>
  /\ classification = "passed"

\* the install succeeded and the Orchestrator still sees a missing module
C18_SurfacesAfterInstall ==
  /\ ex_pc = "classified"
  /\ FirstRunMissing
  /\ InstallSucceeded
  /\ RetryMissing
  /\ classification = "execution error"

(***************************************************************************)
(* C19.  The executor never propagates a fault to its caller: any failure  *)
(* while creating or writing the temp file, spawning or running the child, *)
(* or installing a package results in a normal return of (empty stdout,    *)
(* non-empty descriptive stderr), so every run_code call returns a         *)
(* (stdout, stderr) pair.                                                  *)
(***************************************************************************)
C19_NoFaultPropagates ==
  /\ ~raised
  /\ raising = None
  /\ ex_pc # "raised"
  /\ Returned =>
       /\ DOMAIN ret = { "stdout", "stderr" }
       /\ faults # {} => ret.stdout = << >> /\ ret.stderr # << >>

\* the temporary file could not be created, and run_code returned a pair
C19_Witness ==
  /\ Returned
  /\ faults = { "NamedTemporaryFile" }
  /\ child_runs = << >>
  /\ ret = Pair(<< >>, ErrExecutionFailed)

(***************************************************************************)
(* One call of evaluate_output on two of the texts below.                  *)
(***************************************************************************)
\* the output texts compared: numbers at, just below and just above the
\* tolerance from one another, in several spellings, the two non-finite
\* values, and texts that are no numbers: one word with and without
\* surrounding whitespace, in another case and with a blank inside, and the
\* empty text
EvalTexts ==
  { << "8" >>,
    << "8", ".", "0" >>,
    << " ", "8", " " >>,
    << "8", ".", "0", "0", "0", "0", "0", "1" >>,
    << "8", ".", "0", "0", "0", "0", "0", "0", "9" >>,
    << "8", ".", "0", "0", "0", "0", "0", "1", "1" >>,
    << "2" >>,
    << "2", ".", "0", "0", "0", "0", "0", "1" >>,
    << "-", "2" >>,
    << "0", ".", "0", "0", "0", "0", "0", "1" >>,
    << "0" >>,
    << "-", "0" >>,
    << "3", ".", "0", "0", "0", "0", "0", "0", "1" >>,
    << "3", ".", "0" >>,
    << "3", ".", "0", "1" >>,
    << "i", "n", "f" >>,
    << "n", "a", "n" >>,
    << "h", "i" >>,
    << " ", "h", "i", "\t" >>,
    << "H", "i" >>,
    << "h", " ", "i" >>,
    << >> }

\* evaluate_output is called
EvalInit ==
  /\ SessionAtRest
  /\ ExecutorAtRest
  /\ NormalizerAtRest
  /\ eval_call \in [actual_output : EvalTexts, expected_output : EvalTexts]
  /\ eval_pc = "called"
  /\ eval_result = FALSE

\* lines 8-13: evaluate_output returns
Evaluate ==
  /\ eval_pc = "called"
  /\ eval_result' =
       evaluate_output(eval_call.actual_output, eval_call.expected_output)
  /\ eval_pc' = "returned"
  /\ UNCHANGED << session, executor, normalizer, eval_call >>

EvalNext == Evaluate

EvalSpec == EvalInit /\ [][EvalNext]_vars

\* both arguments parse as numbers (line 9 and line 10 do not raise)
BothNumeric ==
  /\ IsFloat(strip(eval_call.actual_output))
  /\ IsFloat(strip(eval_call.expected_output))

\* both arguments are decimal literals, that is, finite numbers
BothDecimal ==
  /\ IsDecimal(strip(eval_call.actual_output))
  /\ IsDecimal(strip(eval_call.expected_output))

\* the absolute difference of the two numbers the arguments denote, exact,
\* in units of 1e-7
ExactDifference ==
  Abs(DecimalVal(strip(eval_call.actual_output))
        - DecimalVal(strip(eval_call.expected_output)))

\* 1e-6 in units of 1e-7
ExactTolerance == 10

(***************************************************************************)
(* C20.  For all strings a and b that both parse as numbers after trimming *)
(* surrounding whitespace, evaluate_output(a, b) is true if and only if    *)
(* the absolute difference of the two numbers is strictly less than 1e-6   *)
(* (absolute, not relative, tolerance).                                    *)
(***************************************************************************)
\* the claim as stated, on the finite numbers: violated by "8.000001" and
\* "8", which differ by exactly 1e-6 and are found equal, because the
\* binary64 nearest to 8.000001 lies below it
C20_AsClaimed ==
  (eval_pc = "returned" /\ BothDecimal) =>
    (eval_result <=> ExactDifference < ExactTolerance)

\* C20 amended: a difference below 1e-6 is accepted and one above 1e-6 is
\* rejected; at exactly 1e-6 the rounding of float() decides; a pair with
\* an infinity or a NaN is rejected
C20_ToleranceUpToRounding ==
  (eval_pc = "returned" /\ BothNumeric) =>
    IF BothDecimal
    THEN /\ ExactDifference < ExactTolerance => eval_result
         /\ ExactDifference > ExactTolerance => ~eval_result
    ELSE ~eval_result

\* 3.0000001 against 3.0: one tenth of the tolerance apart, accepted
C20_Witness ==
  /\ eval_call.actual_output = << "3", ".", "0", "0", "0", "0", "0", "0", "1" >>
  /\ eval_call.expected_output = << "3", ".", "0" >>
  /\ eval_pc = "returned"
  /\ eval_result = TRUE

\* exactly 1e-6 apart and accepted
C20_BoundaryAccepted ==
  /\ BothDecimal
  /\ ExactDifference = ExactTolerance
  /\ eval_pc = "returned"
  /\ eval_result = TRUE

\* exactly 1e-6 apart and rejected
C20_BoundaryRejected ==
  /\ BothDecimal
  /\ ExactDifference = ExactTolerance
  /\ eval_pc = "returned"
  /\ eval_result = FALSE

\* the same infinity on both sides, rejected
C20_InfinityRejected ==
  /\ eval_call.actual_output = << "i", "n", "f" >>
  /\ eval_call.expected_output = << "i", "n", "f" >>
  /\ eval_pc = "returned"
  /\ eval_result = FALSE

\* t is s without its leading and trailing whitespace: a slice of s that
\* neither starts nor ends with whitespace, with nothing but whitespace
\* around it
IsTrimOf(t, s) ==
  \E i \in 1..(Len(s) + 1), j \in 0..Len(s) :
    /\ i <= j + 1
    /\ t = Slice(s, i, j)
    /\ \A k \in 1..(i - 1) : IsSpace(s[k])
    /\ \A k \in (j + 1)..Len(s) : IsSpace(s[k])
    /\ t # << >> => ~IsSpace(t[1]) /\ ~IsSpace(t[Len(t)])

\* the two texts are equal, character by character, once trimmed
TrimmedEqual(a, b) ==
  \E i \in 1..(Len(a) + 1), j \in 0..Len(a) :
    /\ IsTrimOf(Slice(a, i, j), a)
    /\ IsTrimOf(Slice(a, i, j), b)

(***************************************************************************)
(* C21.  If at least one of the two strings does not parse as a number,    *)
(* evaluate_output(a, b) is the exact equality of a and b after trimming   *)
(* the leading and trailing whitespace of both (case and internal          *)
(* whitespace count), and it returns a boolean without raising.            *)
(***************************************************************************)
C21_FallbackIsTrimmedEquality ==
  (eval_pc = "returned" /\ ~BothNumeric) =>
    /\ eval_result \in BOOLEAN
    /\ eval_result <=>
         TrimmedEqual(eval_call.actual_output, eval_call.expected_output)

\* " hi<TAB>" against "hi": equal once trimmed
C21_Witness ==
  /\ eval_call.actual_output = << " ", "h", "i", "\t" >>
  /\ eval_call.expected_output = << "h", "i" >>
  /\ ~BothNumeric
  /\ eval_pc = "returned"
  /\ eval_result = TRUE

\* "Hi" against "hi": the case counts
C21_CaseCounts ==
  /\ eval_call.actual_output = << "H", "i" >>
  /\ eval_call.expected_output = << "h", "i" >>
  /\ eval_pc = "returned"
  /\ eval_result = FALSE

\* "h i" against "hi": whitespace inside counts
C21_InnerSpaceCounts ==
  /\ eval_call.actual_output = << "h", " ", "i" >>
  /\ eval_call.expected_output = << "h", "i" >>
  /\ eval_pc = "returned"
  /\ eval_result = FALSE

\* a number against a text that is none: compared as texts
C21_OneNumber ==
  /\ eval_call.actual_output = << "8" >>
  /\ eval_call.expected_output = << "h", "i" >>
  /\ eval_pc = "returned"
  /\ eval_result = FALSE

(***************************************************************************)
(* normalize_error applied to a text, and then to what it returned.  The   *)
(* texts are made of at most MaxFragments pieces of tracebacks.            *)
(***************************************************************************)
\* most pieces a text is made of
MaxFragments == 3

\* the token that precedes a line number
FLine == << "l", "i", "n", "e", " " >>

\* a digit run
FNumber == << "1", "2" >>

\* the start of a file reference
FFile == << "F", "i", "l", "e", " ", "\"" >>

\* the quote that ends a file reference
FQuote == << "\"" >>

\* the start of a temporary file name
FTmp == << "t", "m", "p" >>

\* word characters
FWord == << "a", "b" >>

\* the end of a temporary file name
FPy == << ".", "p", "y" >>

\* a line break
FNewline == << "\n" >>

\* the indentation of a traceback line
FIndent == << " ", " " >>

\* a whole traceback line
FFrame ==
  << " ", " ", "F", "i", "l", "e", " ", "\"", "/", "t", "/", "t", "m", "p",
     "a", "b", ".", "p", "y", "\"", ",", " ", "l", "i", "n", "e", " ", "3",
     "\n" >>

\* an error message
FMessage == << "E", ":", " ", "x" >>

Fragments ==
  { FLine, FNumber, FFile, FQuote, FTmp, FWord,
    FPy, FNewline, FIndent, FFrame, FMessage }

\* the pieces of fs, one after the other
RECURSIVE Concat(_)
Concat(fs) == IF fs = << >> THEN << >> ELSE Head(fs) \o Concat(Tail(fs))

\* the texts normalize_error is applied to
NormTexts ==
  UNION { { Concat(fs) : fs \in [1..n -> Fragments] } : n \in 0..MaxFragments }

\* normalize_error is called
NormInit ==
  /\ SessionAtRest
  /\ ExecutorAtRest
  /\ EvaluatorAtRest
  /\ norm_call \in NormTexts
  /\ norm_pc = "called"
  /\ norm_result = << >>
  /\ norm_again = << >>

\* lines 109-129: normalize_error returns
Normalize ==
  /\ norm_pc = "called"
  /\ norm_result' = normalize_error(norm_call)
  /\ norm_pc' = "returned"
  /\ UNCHANGED << session, executor, evaluator, norm_call, norm_again >>

\* lines 109-129: normalize_error returns, called on its own result
NormalizeAgain ==
  /\ norm_pc = "returned"
  /\ norm_again' = normalize_error(norm_result)
  /\ norm_pc' = "returned_again"
  /\ UNCHANGED << session, executor, evaluator, norm_call, norm_result >>

NormNext == Normalize \/ NormalizeAgain

NormSpec == NormInit /\ [][NormNext]_vars

(***************************************************************************)
(* C22.  normalize_error is idempotent: for every error text x,            *)
(* normalize_error(normalize_error(x)) equals normalize_error(x).          *)
(***************************************************************************)
C22_Idempotent ==
  norm_pc = "returned_again" => norm_again = norm_result

\* a traceback line followed by a message with a line number: the first
\* call drops the traceback line and rewrites the number, the second call
\* changes nothing
C22_Witness ==
  /\ norm_call = Concat(<< FFrame, FLine, FNumber >>)
  /\ norm_pc = "returned_again"
  /\ norm_result = << "l", "i", "n", "e", " ", "X" >>
  /\ norm_again = norm_result

\* a file reference that spans two lines is rewritten as one
C22_ReferenceAcrossLines ==
  /\ norm_call = Concat(<< FFile, FNewline, FQuote >>)
  /\ norm_pc = "returned_again"
  /\ norm_result = << "F", "i", "l", "e", " ", "\"", "X", "\"" >>
  /\ norm_again = norm_result

(***************************************************************************)
(* Traces that differ in their line numbers only.                          *)
(***************************************************************************)
\* the line numbers a trace is rewritten with
LineNumbers == { << "1" >>, << "2", "7" >>, << "3", "0", "5" >> }

\* the trace s from index i on, with the number d in the place of every
\* digit run that follows "line "
RECURSIVE Renumber(_, _, _)
Renumber(s, i, d) ==
  IF i > Len(s) THEN << >>
  ELSE IF /\ HasPrefix(s, i, << "l", "i", "n", "e", " " >>)
          /\ i + 5 <= Len(s)
          /\ IsDigit(s[i + 5])
       THEN << "l", "i", "n", "e", " " >> \o d
              \o Renumber(s, DigitsEnd(s, i + 5), d)
       ELSE << s[i] >> \o Renumber(s, i + 1, d)

\* the two stderr texts of the session that differ in the line number only
LineTraces == { ErrLine1, ErrLine2 }

\* their signature
LineSignature == normalize_error(ErrLine1)

\* the two are different texts, and one is the other with another line
\* number
LineTracesDiffer ==
  /\ ErrLine1 # ErrLine2
  /\ ErrLine2 = Renumber(ErrLine1, 1, << "2", "7" >>)

\* the two have one signature
LineTracesCollapse == normalize_error(ErrLine2) = LineSignature

\* the stderr of the last run of the current attempt
LastStderr ==
  IF attempt_runs = << >> THEN << >>
  ELSE attempt_runs[Len(attempt_runs)].error

\* the test cases of the current attempt are over, and attempt_runs holds
\* its runs
AttemptOver == pc = "after_tests" \/ (Exited /\ ~TimedOut)

(***************************************************************************)
(* C23.  Two raw error traces that are identical except for the digit runs *)
(* following the token "line" normalize to the same signature, so two      *)
(* attempts that fail with such traces increment the same entry of the     *)
(* error-frequency table and count together towards the Stuck threshold.   *)
(***************************************************************************)
C23_LineNumbersCountTogether ==
  /\ LineTracesDiffer
  /\ LineTracesCollapse
  /\ (pc = "after_tests" /\ LastStderr # << >>) =>
       \A d \in LineNumbers :
         << normalize_error(Renumber(LastStderr, 1, d)) >>
           = current_attempt_errors
  /\ (AttemptOver /\ LastStderr \in LineTraces) =>
       /\ current_attempt_errors = << LineSignature >>
       /\ LineSignature \in DOMAIN error_history
       \* an attempt records one execution error at most, so a first
       \* error that is another text came in an earlier attempt
       /\ (first_error \in LineTraces /\ first_error # LastStderr) =>
            /\ attempt >= 2
            /\ error_history[LineSignature] >= 2
            /\ (Exited /\ MAX_DUPLICATE_ERRORS <= 2) => Stuck

\* attempt 1 failed with the trace of line 1 and attempt 2 with the trace of
\* line 27: the one entry stands at 2 and the session ended Stuck
C23_Witness ==
  /\ MAX_DUPLICATE_ERRORS = 2
  /\ attempt = 2
  /\ first_error = ErrLine1
  /\ LastStderr = ErrLine2
  /\ DOMAIN error_history = { LineSignature }
  /\ error_history[LineSignature] = 2
  /\ Stuck
  /\ pc = "done"

\* this step is a run of a test case that ended with empty stderr and an
\* output the evaluator rejected
MismatchStep ==
  /\ pc = "run_test"
  /\ attempt_runs' # attempt_runs
  /\ LastStderr' = << >>
  /\ ~all_passed'

\* no run of the session has reported an execution error so far
NoExecutionErrorYet == first_error = NoFirstError

(***************************************************************************)
(* C24.  An attempt that fails by output mismatch (empty stderr, the       *)
(* evaluator rejects) leaves the error-frequency table unchanged and       *)
(* records no signature; so a session in which no test case ever produces  *)
(* an execution error never ends Stuck, however often the same wrong       *)
(* output is repeated.                                                     *)
(***************************************************************************)
C24_MismatchRecordsNothing ==
  /\ [][MismatchStep =>
          /\ error_history' = error_history
          /\ current_attempt_errors' = << >>
          /\ ~StuckDetected'
          /\ pc' = "after_tests"]_vars
  /\ [](NoExecutionErrorYet =>
          /\ DOMAIN error_history = {}
          /\ current_attempt_errors = << >>
          /\ outcome_signatures \subseteq { NoError }
          /\ ~Stuck)

\* the lowest threshold, three attempts that all failed by mismatch: the
\* table is empty and the session ended Exhausted
C24_Witness ==
  /\ MAX_DUPLICATE_ERRORS = 1
  /\ MAX_ATTEMPTS = 3
  /\ attempt = 3
  /\ NoExecutionErrorYet
  /\ LastStderr = << >>
  /\ ~all_passed
  /\ Len(feedback_summary) = 1
  /\ feedback_summary[1].kind = "Expected"
  /\ DOMAIN error_history = {}
  /\ Exhausted
  /\ pc = "done"

\* an attempt is under way and its test cases are not over
AttemptRunning == pc \in {"oracle", "oracle_wait", "run_test"}

(***************************************************************************)
(* C25.  For MAX_DUPLICATE_ERRORS >= 1, in every reachable state every     *)
(* signature's count in the error-frequency table is at most               *)
(* MAX_DUPLICATE_ERRORS, and no attempt is started while some signature's  *)
(* count equals MAX_DUPLICATE_ERRORS; the occurrences that reach the       *)
(* threshold need not come from consecutive attempts.                      *)
(***************************************************************************)
C25_CountsWithinThreshold ==
  MAX_DUPLICATE_ERRORS >= 1 =>
    /\ \A sig \in DOMAIN error_history :
         error_history[sig] <= MAX_DUPLICATE_ERRORS
    /\ (pc = "check_time" \/ AttemptRunning) =>
         \A sig \in DOMAIN error_history :
           error_history[sig] < MAX_DUPLICATE_ERRORS
    /\ (\E sig \in DOMAIN error_history :
          error_history[sig] = MAX_DUPLICATE_ERRORS) =>
         \/ pc = "after_tests" /\ StuckDetected
         \/ Stuck /\ Exited

\* a threshold of 2 reached in attempt 3 by the signature that attempt 1
\* recorded, attempt 2 having recorded another one: the session ended Stuck
C25_Witness ==
  /\ MAX_DUPLICATE_ERRORS = 2
  /\ first_error = ErrTimeout
  /\ attempt = 3
  /\ attempts_started = 3
  /\ current_attempt_errors = << normalize_error(ErrTimeout) >>
  /\ DOMAIN error_history = { normalize_error(ErrTimeout), LineSignature }
  /\ error_history[normalize_error(ErrTimeout)] = 2
  /\ error_history[LineSignature] = 1
  /\ Stuck
  /\ pc = "done"

\* the entry lines 183 and 194 append for the last run of the attempt
EntryOfLastRun ==
  LET r == attempt_runs[Len(attempt_runs)]
  IN  IF IsExecutionError(r.error)
      THEN ErrorEntry(r.idx, r.error)
      ELSE MismatchEntry(r.idx, test_cases[r.idx].expected, r.output)

(***************************************************************************)
(* C26.  With a non-empty test-case sequence, every failed attempt ends    *)
(* with a feedback_summary that contains exactly one test-case entry       *)
(* (either one execution-error entry or one expected-versus-got entry,     *)
(* naming the first failing test case), so the Debugger is never called    *)
(* with an empty feedback.                                                 *)
(***************************************************************************)
C26_OneFeedbackEntry ==
  /\ (test_cases # << >> /\ pc = "after_tests" /\ ~all_passed) =>
       /\ Len(feedback_summary) = 1
       /\ feedback_summary[1] = EntryOfLastRun
       /\ feedback_summary[1].kind \in {"Execution Error", "Expected"}
       /\ feedback_summary[1].idx = Len(attempt_runs)
       /\ ~RunPassed(attempt_runs[Len(attempt_runs)],
                     test_cases[Len(attempt_runs)].expected)
       /\ \A k \in 1..(Len(attempt_runs) - 1) :
            RunPassed(attempt_runs[k], test_cases[k].expected)
  /\ (pc = "after_tests" /\ all_passed) => feedback_summary = << >>
  /\ oracle_request.fn = "debug_code" =>
       /\ test_cases # << >>
       /\ Len(oracle_request.feedback) = 1
       /\ oracle_request.feedback = feedback_summary

\* the Debugger is being called with the one entry of an attempt whose
\* first test case passed and whose second did not
C26_Witness ==
  /\ pc = "oracle_wait"
  /\ oracle_request.fn = "debug_code"
  /\ Len(test_cases) = 2
  /\ Len(oracle_request.feedback) = 1
  /\ oracle_request.feedback[1].idx = 2
  /\ oracle_request.feedback[1].kind = "Expected"

\* an attempt that failed at its first test case with an execution error
C26_ErrorEntry ==
  /\ pc = "after_tests"
  /\ ~all_passed
  /\ Len(test_cases) = 2
  /\ feedback_summary = << ErrorEntry(1, ErrLine2) >>

(***************************************************************************)
(* C27.  When solve_task is called with an empty test-case sequence,       *)
(* attempt 1 makes one Generator call and no executor call, counts as      *)
(* all-passed, and the session ends in Success on attempt 1 with whatever  *)
(* source the Generator returned.                                          *)
(***************************************************************************)
C27_EmptyTestsSucceedAtOnce ==
  test_cases = << >> =>
    /\ attempt = 1
    /\ attempts_started <= 1
    /\ generate_calls <= 1
    /\ debug_calls = 0
    /\ attempt_runs = << >>
    /\ last_runs = << >>
    /\ all_passed
    /\ error_history = [k \in {} |-> 0]
    /\ pc \in {"after_tests", "final", "done"} =>
         generate_calls = 1 /\ code \in Sources
    /\ Exited =>
         /\ Success
         /\ success_message = 1
         /\ ~TimedOut /\ ~Stuck /\ ~Exhausted
         /\ final_code = code
    /\ pc = "done" => returned = code

\* no test case, MAX_ATTEMPTS = 3: the Generator's source was returned
\* after one attempt
C27_Witness ==
  /\ test_cases = << >>
  /\ MAX_ATTEMPTS = 3
  /\ pc = "done"
  /\ Success
  /\ attempt = 1
  /\ generate_calls = 1
  /\ attempt_runs = << >>
  /\ code = "print(8)"
  /\ returned = "print(8)"

\* no test case and an empty source: Success all the same
C27_EmptySource ==
  /\ test_cases = << >>
  /\ pc = "done"
  /\ Success
  /\ code = ""
  /\ returned = ""

====
